---- MODULE Spec2Model ----
(***************************************************************************)
(* RSS-View: feed ingestion pipeline (main.py), article store              *)
(* (database.py), extractor (scraper.py) and moderation gateway            *)
(* (telegram_bot.py, test_sender.py).                                      *)
(*                                                                         *)
(* Spec            the tick coroutine check_news_job over the article      *)
(*                 store                                                   *)
(* SpecModeration  drafts, approval events and handle_publish_callback     *)
(* SpecText        the publish text of a draft, over all short drafts      *)
(* SpecScrape      scrape_article_content over abstract pages              *)
(* SpecStore       the functions of database.py on small tables            *)
(* SpecContext     get_todays_articles_content on tables longer than its   *)
(*                 limit                                                   *)
(* SpecTrim        the trim of titles and descriptions, over short strings *)
(* SpecFeed        get_latest_articles over small parsed feeds             *)
(* SpecLoop        the approval handler between the steps of a running     *)
(*                 tick                                                    *)
(***************************************************************************)
EXTENDS Integers, Sequences, FiniteSets, TLC

(***************************************************************************)
(* Bounds of the model.                                                    *)
(***************************************************************************)
MaxBatch == 2
MaxInitRows == 1
MaxDrafts == 2
MaxEvents == 2
MaxTextLen == 5
MaxNodes == 2
MaxDocLen == 2
MaxRows == 2
MaxTable == 6
MaxChars == 4
MaxEntries == 3
MaxCount == 2
MaxSecond == 1

(***************************************************************************)
(* Program constants.                                                      *)
(***************************************************************************)
\* database.py:25  def add_article_base(original_url, title, original_content)
AddArticleBaseParams == 3
\* main.py:103  add_article_base(link, title, "SEMANTIC_DUPLICATE_CHECKED", None)
DuplicateCallArgs == 4
\* main.py:152  add_article_base(link, final_title, processed_content, image_url)
PersistCallArgs == 4
\* database.py:73  LIMIT 5
TodaysLimit == 5

NULL == "NULL"
SENTINEL == "SEMANTIC_DUPLICATE_CHECKED"
LINK_PLACEHOLDER == "LINK_PLACEHOLDER"

\* The links the feeds can carry, the callers of the tick coroutine, the days.
Links == {"urlA", "urlB"}
Callers == {"scheduler", "overlap"}
Days == {1, 2}

VARIABLES
    articles,         \* table articles of news.db: sequence of rows, id = position
    today,            \* the local calendar day
    processing_lock,  \* main.py:14 asyncio.Lock, TRUE when held
    job,              \* per caller: position and locals of its check_news_job call
    lastCall,         \* history: the latest check_news_job invocation and how it went
    lastRun,          \* history: the candidate run that ended last
    dupVerdict,       \* history, per link: a duplicate verdict "no" / in "this" tick /
                      \*   in an "earlier" tick
    extractFailed,    \* history, per link: a failed extraction, likewise
    webhook_url,      \* config.py:17 MAKE_WEBHOOK_URL (NULL when not set)
    drafts,           \* the review channel: messages with their approval button
    sender,           \* test_sender.py: ids of the rows it still has to send
    queue,            \* callback queries pressed and not yet handled
    pressed,          \* history: number of approval events so far
    handler,          \* position and locals of handle_publish_callback
    posts,            \* the public channel: messages sent, with their event
    lastEvent,        \* history: the approval event handled last and its outcome
    draft_html,       \* SpecText: a draft's rendered text
    publish_text,     \* SpecText: what the handler computes from it
    page,             \* SpecScrape: the page behind a candidate's link
    scraped,          \* SpecScrape: what scrape_article_content returned for it
    dbcall,           \* SpecStore: the latest call of a database.py function
    second,           \* the second of the day on the clock CURRENT_TIMESTAMP reads
    trim,             \* SpecTrim: a string and its successive trims
    feed,             \* SpecFeed: what feedparser.parse returned for a feed
    latest            \* SpecFeed: the latest call of get_latest_articles

tickVars == <<processing_lock, job, lastCall, lastRun, dupVerdict, extractFailed>>
modVars == <<webhook_url, drafts, sender, queue, pressed, handler, posts, lastEvent>>
textVars == <<draft_html, publish_text>>
scrapeVars == <<page, scraped>>
storeVars == <<dbcall, second>>
trimVars == <<trim>>
feedVars == <<feed, latest>>
otherVars == <<trimVars, feedVars>>
notTick == <<modVars, textVars, scrapeVars, storeVars, otherVars>>
notModeration == <<articles, today, tickVars, textVars, scrapeVars, storeVars, otherVars>>
vars == <<articles, today, tickVars, modVars, textVars, scrapeVars, storeVars, otherVars>>

(***************************************************************************)
(* database.py                                                             *)
(***************************************************************************)
\* database.py:17  created_at TIMESTAMP DEFAULT CURRENT_TIMESTAMP: the day and
\* the second of the day; the resolution is one second
Stamp(d, s) == [day |-> d, sec |-> s]
CURRENT_TIMESTAMP == Stamp(today, second)

Row(url, title, content, translated, telegraph, created) ==
    [original_url |-> url, title |-> title, original_content |-> content,
     translated_content |-> translated, telegraph_url |-> telegraph,
     created_at |-> created]

\* a lookup that never finds the row
article_exists_never(table, original_url) == FALSE

\* database.py:54-61
article_exists(table, original_url) ==
    \E i \in DOMAIN table : table[i].original_url = original_url

\* an insert that replaces the row of a link that has one (INSERT OR REPLACE)
add_article_base_or_replace(table, original_url, title, original_content) ==
    IF article_exists(table, original_url)
    THEN LET id == CHOOSE i \in DOMAIN table : table[i].original_url = original_url
         IN  [table |-> [table EXCEPT ![id] = Row(original_url, title, original_content,
                                                  NULL, NULL, CURRENT_TIMESTAMP)],
              id |-> id]
    ELSE [table |-> Append(table, Row(original_url, title, original_content,
                                      NULL, NULL, CURRENT_TIMESTAMP)),
          id |-> Len(table) + 1]

\* database.py:25-40: the UNIQUE constraint on original_url turns a second
\* insert into IntegrityError, reported as None (id 0 here); lastrowid otherwise.
add_article_base(table, original_url, title, original_content) ==
    IF article_exists(table, original_url)
    THEN [table |-> table, id |-> 0]
    ELSE [table |-> Append(table, Row(original_url, title, original_content,
                                      NULL, NULL, CURRENT_TIMESTAMP)),
          id |-> Len(table) + 1]

\* an update that also refreshes the row's timestamp
update_article_translation_touch(table, article_id, translated_content, telegraph_url) ==
    [i \in DOMAIN table |->
        IF i = article_id
        THEN [table[i] EXCEPT !.translated_content = translated_content,
                              !.telegraph_url = telegraph_url,
                              !.created_at = CURRENT_TIMESTAMP]
        ELSE table[i]]

\* database.py:42-52
update_article_translation(table, article_id, translated_content, telegraph_url) ==
    [i \in DOMAIN table |->
        IF i = article_id
        THEN [table[i] EXCEPT !.translated_content = translated_content,
                              !.telegraph_url = telegraph_url]
        ELSE table[i]]

\* database.py:70-72  WHERE DATE(created_at, 'localtime') = ? AND
\* original_content IS NOT NULL
where_today(table) ==
    { i \in DOMAIN table :
        table[i].created_at.day = today /\ table[i].original_content # NULL }

\* a created_at later than another
Later(a, b) == a.day > b.day \/ (a.day = b.day /\ a.sec > b.sec)

RECURSIVE order_by_created_at_desc(_, _)
\* database.py:73  ORDER BY created_at DESC: the ids of the rows, the latest
\* timestamp first.  The query names no second key: rows of the same second
\* come in the order of the table scan, the lowest id first.
order_by_created_at_desc(table, rows) ==
    IF rows = {} THEN <<>>
    ELSE LET first == CHOOSE i \in rows :
                         \A j \in rows \ {i} :
                            \/ Later(table[i].created_at, table[j].created_at)
                            \/ table[i].created_at = table[j].created_at /\ i < j
         IN  <<first>> \o order_by_created_at_desc(table, rows \ {first})

\* the selected contents in the order of the query
TodaysFrom(table) ==
    LET ids == order_by_created_at_desc(table, where_today(table))
    IN  [k \in DOMAIN ids |-> table[ids[k]].original_content]

\* database.py:63-77
get_todays_articles_content(table) ==
    LET all == TodaysFrom(table)
    IN  SubSeq(all, 1, IF Len(all) < TodaysLimit THEN Len(all) ELSE TodaysLimit)

\* database.py:90-102: the row as a dict (found), or None
get_article_by_id(table, article_id) ==
    IF article_id \in DOMAIN table
    THEN [found |-> TRUE, id |-> article_id, title |-> table[article_id].title,
          telegraph_url |-> table[article_id].telegraph_url,
          translated_content |-> table[article_id].translated_content]
    ELSE [found |-> FALSE, id |-> 0, title |-> <<>>, telegraph_url |-> NULL,
          translated_content |-> NULL]

\* a lookup that clears the hosted URL of the row it returns
get_article_by_id_effect_marks(table, article_id) ==
    [i \in DOMAIN table |->
        IF i = article_id THEN [table[i] EXCEPT !.telegraph_url = NULL] ELSE table[i]]

\* database.py:90-102: the table after the call: one SELECT, no write and no
\* commit
get_article_by_id_effect(table, article_id) == table

NoDbCall == [op |-> "none", url |-> NULL, before |-> <<>>, raised |-> FALSE, id |-> 0,
             content |-> NULL, telegraph |-> NULL, result |-> <<>>]

StoreIdle == dbcall = NoDbCall /\ second = 0

NoTrim == <<>>
NoFeed == [bozo |-> FALSE, entries |-> <<>>]
NotPolled == [done |-> FALSE, count |-> 0, raised |-> FALSE, articles |-> <<>>]

OtherIdle ==
    /\ trim = NoTrim
    /\ feed = NoFeed
    /\ latest = NotPolled

(***************************************************************************)
(* The store the process starts with: news.db outlives the process         *)
(* (init_db is CREATE TABLE IF NOT EXISTS), so a run starts with the rows  *)
(* earlier runs left: hosted articles, sentinel rows, base rows.           *)
(***************************************************************************)
\* A hosted row carries a title without a link when the title synthesis gave
\* none (main.py:126, the default title); LinkedRow below is the one with it.
PageOf(u) == IF u = "urlA" THEN "tgA" ELSE "tgB"
\* main.py:152,170: both content columns of a hosted row hold the processed
\* content
HostedRow(u, d) ==
    Row(u, <<[k |-> "w", v |-> "old"]>>, "rewritten", "rewritten", PageOf(u), Stamp(d, 0))
SentinelRow(u, d) ==
    Row(u, <<[k |-> "w", v |-> "old"]>>, SENTINEL, NULL, NULL, Stamp(d, 0))

InitRows == { HostedRow(u, d) : u \in Links, d \in Days }
            \cup { SentinelRow(u, d) : u \in Links, d \in Days }

RECURSIVE SeqsUpTo(_, _)
SeqsUpTo(S, n) ==
    IF n = 0 THEN {<<>>}
    ELSE LET shorter == SeqsUpTo(S, n - 1)
         IN  shorter \cup { Append(s, x) : s \in {q \in shorter : Len(q) = n - 1}, x \in S }

UniqueUrls(table) ==
    \A i, j \in DOMAIN table :
        table[i].original_url = table[j].original_url => i = j

InitStores ==
    { s \in SeqsUpTo(InitRows, MaxInitRows) :
        /\ UniqueUrls(s)
        /\ \A i \in DOMAIN s : s[i].created_at.day <= 2 }

(***************************************************************************)
(* Text.  A string is a sequence of tokens [k, v]: "nl" a line break, "sp" *)
(* a blank, "w" a word v, "b" / "/b" bold tags, "a1" an anchor opened with *)
(* single quotes (<a href='v'>), "a2" one opened with double quotes        *)
(* (<a href="v">), "/a" the anchor's end, "label/a" the source label       *)
(* followed by the anchor's end (the run the handler looks for).  `x in s` *)
(* of the source is the presence of the token x.                           *)
(***************************************************************************)
Tok(k, v) == [k |-> k, v |-> v]
NL == Tok("nl", "")
SP == Tok("sp", "")
W(v) == Tok("w", v)
BOLD == Tok("b", "")
UNBOLD == Tok("/b", "")
ENDA == Tok("/a", "")
SOURCE_END == Tok("label/a", "")

\* str.replace('LINK_PLACEHOLDER', url): main.py:144-145
ReplacePlaceholder(text, url) ==
    [n \in DOMAIN text |->
        IF text[n].v = LINK_PLACEHOLDER THEN Tok(text[n].k, url) ELSE text[n]]

(***************************************************************************)
(* main.py: check_news_job                                                 *)
(***************************************************************************)
Candidate(u) == [title |-> <<W("feed")>>, link |-> u]

\* main.py:36-44: the concatenated batches of all feeds; the same link may
\* come from more than one feed.
Batches == SeqsUpTo({ Candidate(u) : u \in Links }, MaxBatch)

NoRun == [link |-> NULL, trail |-> <<>>, end |-> "none"]
NoCall == [caller |-> NULL, result |-> "none"]

IdleJob ==
    [pc |-> "idle", batch |-> <<>>, i |-> 0, trail |-> <<>>,
     scraped |-> NULL, todays |-> <<>>, processed |-> NULL,
     title |-> <<>>, description |-> <<>>, telegraph |-> NULL]

Link(t) == job[t].batch[job[t].i].link
FeedTitle(t) == job[t].batch[job[t].i].title

\* The locals of one loop iteration, cleared when the next one starts.
Cleared(j) ==
    [j EXCEPT !.trail = <<>>, !.scraped = NULL, !.todays = <<>>, !.processed = NULL,
              !.title = <<>>, !.description = <<>>, !.telegraph = NULL]

\* `continue` (or the end of the loop body): the next candidate of the batch,
\* or lines 190-198 and the release of the lock by `async with`.
Continue(j) ==
    IF j.i < Len(j.batch)
    THEN [Cleared(j) EXCEPT !.pc = "gate", !.i = j.i + 1]
    ELSE IdleJob

\* an exception that leaves check_news_job and ends its caller
Raised_escapes(j) == [IdleJob EXCEPT !.pc = "dead"]

\* An exception leaving the loop: main.py:195-198, the tick is over.
Raised(j) == IdleJob

Ended(j, how) == [link |-> j.batch[j.i].link, trail |-> j.trail, end |-> how]

\* History: when the tick is over, what happened in "this" tick happened in an
\* "earlier" one.
Aged(h, over) ==
    [u \in Links |-> IF over /\ h[u] = "this" THEN "earlier" ELSE h[u]]
Marked(h, u) == [h EXCEPT ![u] = IF @ = "no" THEN "this" ELSE @]

\* a run's end that leaves the lock as it is, held
EndRun_keeps_lock(t, j, nj, how) ==
    /\ job' = [job EXCEPT ![t] = nj]
    /\ UNCHANGED processing_lock
    /\ lastRun' = Ended(j, how)

\* The candidate run of caller t ends: j is its job with the trail so far,
\* nj its job afterwards.
EndRun(t, j, nj, how) ==
    /\ job' = [job EXCEPT ![t] = nj]
    /\ processing_lock' = (nj.pc # "idle")
    /\ lastRun' = Ended(j, how)

\* main.py:153  `if not article_id`: None (0 here) is no id
no_article_id(article_id) == article_id = 0

\* Python's call protocol for add_article_base(*args): database.py:25 takes
\* AddArticleBaseParams positional parameters; any other count is a TypeError
\* raised before the body runs.
call_add_article_base(table, args) ==
    IF Len(args) = AddArticleBaseParams
    THEN [raised |-> FALSE, res |-> add_article_base(table, args[1], args[2], args[3])]
    ELSE [raised |-> TRUE, res |-> [table |-> table, id |-> 0]]

\* the guard left out
skip_check_never(lock) == FALSE

\* main.py:19: the guard of the single-flight lock
skip_check(lock) == lock

\* main.py:16-50.  locked() and the acquisition in `async with` run without a
\* suspension point between them; the feeds are polled synchronously.
CheckNewsJob(t) ==
    /\ job[t].pc = "idle"
    /\ UNCHANGED notTick
    /\ IF skip_check(processing_lock)
       THEN /\ lastCall' = [caller |-> t, result |-> "dropped"]
            /\ UNCHANGED <<articles, today, processing_lock, job, lastRun, dupVerdict,
                           extractFailed>>
       ELSE /\ \E batch \in Batches :
                 IF batch = <<>>
                 THEN /\ lastCall' = [caller |-> t, result |-> "empty"]
                      /\ UNCHANGED <<job, processing_lock>>
                 ELSE /\ lastCall' = [caller |-> t, result |-> "started"]
                      /\ job' = [job EXCEPT ![t] =
                                   [IdleJob EXCEPT !.pc = "gate", !.batch = batch,
                                                   !.i = 1]]
                      /\ processing_lock' = TRUE
            /\ UNCHANGED <<articles, today, lastRun, dupVerdict, extractFailed>>

\* main.py:54-64
Gate(t) ==
    /\ job[t].pc = "gate"
    /\ UNCHANGED notTick
    /\ LET j == [job[t] EXCEPT !.trail = <<"exists">>]
       IN  IF article_exists(articles, Link(t))
           THEN /\ EndRun(t, j, Continue(j), "seen")
                /\ dupVerdict' = Aged(dupVerdict, Continue(j).pc = "idle")
                /\ extractFailed' = Aged(extractFailed, Continue(j).pc = "idle")
           ELSE /\ job' = [job EXCEPT ![t] = [j EXCEPT !.pc = "scrape"]]
                /\ UNCHANGED <<processing_lock, lastRun, dupVerdict, extractFailed>>
    /\ UNCHANGED <<articles, today, lastCall>>

\* a failed extraction that marks the link as seen
on_scrape_failed_marks(table, link) ==
    Append(table, Row(link, <<>>, NULL, NULL, NULL, today))

\* main.py:77-79: what a failed extraction leaves in the store
on_scrape_failed(table, link) == table

\* main.py:74-81.  scrape_article_content returns None (transport failure, or
\* both strategies empty) or the extraction result.
Scrape(t) ==
    /\ job[t].pc = "scrape"
    /\ UNCHANGED notTick
    /\ \E scraped_content \in {NULL, "page"} :
         LET j == [job[t] EXCEPT !.trail = Append(@, "fetch")]
         IN  IF scraped_content = NULL
             THEN /\ EndRun(t, j, Continue(j), "scrape_failed")
                  /\ articles' = on_scrape_failed(articles, Link(t))
                  /\ extractFailed' = Aged(Marked(extractFailed, Link(t)),
                                           Continue(j).pc = "idle")
                  /\ dupVerdict' = Aged(dupVerdict, Continue(j).pc = "idle")
             ELSE /\ job' = [job EXCEPT ![t] =
                               [j EXCEPT !.pc = "context", !.scraped = scraped_content]]
                  /\ UNCHANGED <<processing_lock, articles, lastRun, dupVerdict,
                                 extractFailed>>
    /\ UNCHANGED <<today, lastCall>>

\* main.py:95
Context(t) ==
    /\ job[t].pc = "context"
    /\ UNCHANGED notTick
    /\ job' = [job EXCEPT ![t] =
                 [@ EXCEPT !.pc = "judge", !.trail = Append(@, "context"),
                           !.todays = get_todays_articles_content(articles)]]
    /\ UNCHANGED <<articles, today, processing_lock, lastCall, lastRun, dupVerdict,
                   extractFailed>>

\* ai_handler.py:48-80.  answer is the model's reply ("raise": the call failed).
AiAnswers == {"UNIQUE", "DUPLICATE", "raise"}

\* a judgment that takes a failed call for a duplicate verdict
is_article_unique_strict(new_article_content, existing_articles_content, answer) ==
    IF existing_articles_content = <<>> THEN TRUE
    ELSE answer = "UNIQUE"

is_article_unique(new_article_content, existing_articles_content, answer) ==
    IF existing_articles_content = <<>> THEN TRUE
    ELSE IF answer = "raise" THEN TRUE
    ELSE answer = "UNIQUE"

\* a judgment whose verdict is recorded and not acted on
Judge_always_rewrites(t) ==
    /\ job[t].pc = "judge"
    /\ UNCHANGED notTick
    /\ \E answer \in AiAnswers :
         LET is_unique == is_article_unique(job[t].scraped, job[t].todays, answer)
         IN  /\ job' = [job EXCEPT ![t] =
                          [@ EXCEPT !.pc = "rewrite", !.trail = Append(@, "judge")]]
             /\ dupVerdict' =
                   IF is_unique THEN dupVerdict ELSE Marked(dupVerdict, Link(t))
    /\ UNCHANGED <<articles, today, processing_lock, lastCall, lastRun, extractFailed>>

\* main.py:96-107
Judge(t) ==
    /\ job[t].pc = "judge"
    /\ UNCHANGED notTick
    /\ \E answer \in AiAnswers :
         LET is_unique == is_article_unique(job[t].scraped, job[t].todays, answer)
             failed == job[t].todays # <<>> /\ answer = "raise"
         IN  /\ job' = [job EXCEPT ![t] =
                          [@ EXCEPT !.pc = IF is_unique THEN "rewrite" ELSE "dupinsert",
                                    !.trail = Append(@, IF failed THEN "judge_failed"
                                                        ELSE "judge")]]
             /\ dupVerdict' =
                   IF is_unique THEN dupVerdict ELSE Marked(dupVerdict, Link(t))
    /\ UNCHANGED <<articles, today, processing_lock, lastCall, lastRun, extractFailed>>

\* main.py:99-105
DupInsert(t) ==
    /\ job[t].pc = "dupinsert"
    /\ UNCHANGED notTick
    /\ LET j == [job[t] EXCEPT !.trail = Append(@, "insert_duplicate")]
           args == SubSeq(<<Link(t), FeedTitle(t), SENTINEL, NULL, NULL>>, 1,
                          DuplicateCallArgs)
           c == call_add_article_base(articles, args)
           nj == IF c.raised THEN Raised(j) ELSE Continue(j)
       IN  /\ EndRun(t, j, nj, IF c.raised THEN "raised" ELSE "duplicate")
           /\ articles' = c.res.table
           /\ dupVerdict' = Aged(dupVerdict, nj.pc = "idle")
           /\ extractFailed' = Aged(extractFailed, nj.pc = "idle")
    /\ UNCHANGED <<today, lastCall>>

\* main.py:109-114.  process_and_translate_article: the rewritten article, or
\* the original content passed through when the service fails.
process_and_translate_article(content_html, ok) ==
    IF ok THEN "rewritten" ELSE content_html

Rewrite(t) ==
    /\ job[t].pc = "rewrite"
    /\ UNCHANGED notTick
    /\ \E ok \in BOOLEAN :
         job' = [job EXCEPT ![t] =
                   [@ EXCEPT !.pc = "title",
                             !.trail = Append(@, IF ok THEN "rewrite"
                                                 ELSE "rewrite_failed"),
                             !.processed =
                                process_and_translate_article(job[t].scraped, ok)]]
    /\ UNCHANGED <<articles, today, processing_lock, lastCall, lastRun, dupVerdict,
                   extractFailed>>

\* main.py:125-127.  generate_title_and_description returns a dict; a missing
\* key takes main.py's default label.
LinkedTitle == <<Tok("a2", LINK_PLACEHOLDER), W("word"), ENDA, SP, W("rest")>>
TitleData == { [title |-> LinkedTitle, description |-> <<W("summary")>>],
               [title |-> <<W("Novyna")>>, description |-> <<W("Tsikava"), SP, W("stattia")>>] }

Title(t) ==
    /\ job[t].pc = "title"
    /\ UNCHANGED notTick
    /\ \E title_data \in TitleData :
         job' = [job EXCEPT ![t] =
                   [@ EXCEPT !.pc = "host", !.trail = Append(@, "title"),
                             !.title = title_data.title,
                             !.description = title_data.description]]
    /\ UNCHANGED <<articles, today, processing_lock, lastCall, lastRun, dupVerdict,
                   extractFailed>>

\* a failed hosting call that marks the link as seen
on_host_failed_marks(table, link) ==
    Append(table, Row(link, <<>>, NULL, NULL, NULL, today))

\* main.py:137-139: what a failed hosting call leaves in the store
on_host_failed(table, link) == table

\* main.py:133-147, telegraph_client.py:48-73: the page's URL, or None
Host(t) ==
    /\ job[t].pc = "host"
    /\ UNCHANGED notTick
    /\ \E telegraph_url \in {NULL, PageOf(Link(t))} :
         LET j == [job[t] EXCEPT !.trail = Append(@, "host")]
         IN  IF telegraph_url # NULL
             THEN /\ job' = [job EXCEPT ![t] =
                       [j EXCEPT !.pc = "insert",
                                 !.telegraph = telegraph_url,
                                 !.title = ReplacePlaceholder(@, telegraph_url),
                                 !.description = ReplacePlaceholder(@, telegraph_url)]]
                  /\ UNCHANGED <<articles, processing_lock, lastRun, dupVerdict,
                                 extractFailed>>
             ELSE /\ EndRun(t, j, Continue(j), "host_failed")
                  /\ articles' = on_host_failed(articles, Link(t))
                  /\ dupVerdict' = Aged(dupVerdict, Continue(j).pc = "idle")
                  /\ extractFailed' = Aged(extractFailed, Continue(j).pc = "idle")
    /\ UNCHANGED <<today, lastCall>>

\* main.py:149-155
Insert(t) ==
    /\ job[t].pc = "insert"
    /\ UNCHANGED notTick
    /\ LET j == [job[t] EXCEPT !.trail = Append(@, "insert")]
           args == SubSeq(<<Link(t), job[t].title, job[t].processed, NULL, NULL>>, 1,
                          PersistCallArgs)
           c == call_add_article_base(articles, args)
           nj == IF c.raised THEN Raised(j)
                 ELSE IF no_article_id(c.res.id) THEN Continue(j)
                 ELSE [j EXCEPT !.pc = "update"]
       IN  /\ articles' = c.res.table
           /\ IF nj.pc = "update"
              THEN /\ job' = [job EXCEPT ![t] = nj]
                   /\ UNCHANGED <<processing_lock, lastRun, dupVerdict, extractFailed>>
              ELSE /\ EndRun(t, j, nj, IF c.raised THEN "raised" ELSE "conflict")
                   /\ dupVerdict' = Aged(dupVerdict, nj.pc = "idle")
                   /\ extractFailed' = Aged(extractFailed, nj.pc = "idle")
    /\ UNCHANGED <<today, lastCall>>

TickInit ==
    /\ processing_lock = FALSE
    /\ job = [t \in Callers |-> IdleJob]
    /\ lastCall = NoCall
    /\ lastRun = NoRun
    /\ dupVerdict = [u \in Links |-> "no"]
    /\ extractFailed = [u \in Links |-> "no"]

(***************************************************************************)
(* scraper.py.  A markup string is a sequence of pieces [tag, text, src]:  *)
(* an element with its text (a sequence of characters), an image with its  *)
(* address, a structural tag, or a run of white space (tag "ws").          *)
(***************************************************************************)
MinParagraphLen == 20

Chars(n) == [i \in 1..n |-> "x"]
Piece(tag, text, src) == [tag |-> tag, text |-> text, src |-> src]
WS == Piece("ws", <<>>, "")

\* str.strip() of a markup string is the empty string
is_blank(html) == \A n \in DOMAIN html : html[n].tag = "ws"

NoResult == [ok |-> FALSE, via |-> "none", content_html |-> <<>>, image_url |-> NULL]

\* scraper.py:110  any(skip in img_src.lower() for skip in [...])
denylisted(src) == src \in {"http://cdn/logo.png"}
\* scraper.py:107  img_src.startswith('http')
is_http(src) == src \in {"http://cdn/pic.jpg", "http://cdn/logo.png"}

\* The nodes of the container in document order.  A figure's src is that of
\* the <img> it holds, NULL when it holds none.
Nodes ==
    { Piece("p", Chars(n), "") : n \in {0, MinParagraphLen - 1, MinParagraphLen} }
    \cup { Piece("h2", Chars(n), "") : n \in {0, MinParagraphLen - 1} }
    \cup { Piece("img", <<>>, src) : src \in {"", "http://cdn/pic.jpg", "http://cdn/logo.png"} }
    \cup { Piece("figure", <<>>, src) : src \in {NULL, "http://cdn/pic.jpg"} }

RECURSIVE find_all(_)
\* scraper.py:93  article_body.find_all([...]): a figure is followed by the
\* <img> inside it
find_all(nodes) ==
    IF nodes = <<>> THEN <<>>
    ELSE LET e == Head(nodes)
         IN  (IF e.tag = "figure" /\ e.src # NULL
              THEN <<e, Piece("img", <<>>, e.src)>> ELSE <<e>>)
             \o find_all(Tail(nodes))

RECURSIVE rebuild(_, _, _, _)
\* scraper.py:87-124: the loop that rebuilds the content
rebuild(elements, content_html, seen_images, main_image_url) ==
    IF elements = <<>>
    THEN [content_html |-> content_html, image_url |-> main_image_url]
    ELSE LET element == Head(elements)
             rest == Tail(elements)
         IN  IF element.tag \in {"p", "h1", "h2", "h3"}
             THEN IF element.text = <<>>
                     \/ (Len(element.text) < MinParagraphLen /\ element.tag = "p")
                  THEN rebuild(rest, content_html, seen_images, main_image_url)
                  ELSE rebuild(rest, Append(content_html, element), seen_images,
                               main_image_url)
             ELSE IF element.src = NULL \/ element.src = ""
                     \/ ~is_http(element.src) \/ element.src \in seen_images
                     \/ denylisted(element.src)
                  THEN rebuild(rest, content_html, seen_images, main_image_url)
                  ELSE rebuild(rest,
                               Append(content_html, Piece("img", <<>>, element.src)),
                               seen_images \cup {element.src},
                               IF main_image_url = NULL THEN element.src
                               ELSE main_image_url)

\* scraper.py:126  not content_html.strip()
rebuilt_is_empty(content_html) == is_blank(content_html)

\* scraper.py:45-138
scrape_with_beautifulsoup(pg) ==
    IF ~pg.body THEN NoResult
    ELSE LET r == rebuild(find_all(pg.nodes), <<>>, {}, NULL)
         IN  IF rebuilt_is_empty(r.content_html) THEN NoResult
             ELSE [ok |-> TRUE, via |-> "primary", content_html |-> r.content_html,
                   image_url |-> r.image_url]

RECURSIVE strip_ws(_)
strip_ws(html) ==
    IF html # <<>> /\ Head(html).tag = "ws" THEN strip_ws(Tail(html))
    ELSE IF html # <<>> /\ html[Len(html)].tag = "ws"
    THEN strip_ws(SubSeq(html, 1, Len(html) - 1))
    ELSE html

\* scraper.py:191-211
clean_trafilatura_html(html_content) ==
    LET structural(x) == x.tag \notin {"html", "/html", "head", "/head", "body", "/body"}
        nonempty(x) == ~(x.tag = "p" /\ x.text = <<>>)
        retag(x) == IF x.tag \in {"h1", "h2"} THEN [x EXCEPT !.tag = "h3"]
                    ELSE IF x.tag \in {"h5", "h6"} THEN [x EXCEPT !.tag = "h4"]
                    ELSE x
        kept == SelectSeq(SelectSeq(html_content, structural), nonempty)
    IN  strip_ws([n \in DOMAIN kept |-> retag(kept[n])])

\* scraper.py:223-230
extract_main_image_from_html(content_html) ==
    LET imgs == SelectSeq(content_html, LAMBDA x : x.tag = "img" /\ x.src # "")
    IN  IF imgs # <<>> /\ ~denylisted(imgs[1].src) THEN imgs[1].src ELSE NULL

\* scraper.py:162  not content_html
extract_is_empty(out) == out.none \/ out.html = <<>>

\* scraper.py:140-189
scrape_with_trafilatura(pg) ==
    IF extract_is_empty(pg.extract) THEN NoResult
    ELSE LET cleaned_html == clean_trafilatura_html(pg.extract.html)
         IN  [ok |-> TRUE, via |-> "fallback", content_html |-> cleaned_html,
              image_url |-> extract_main_image_from_html(cleaned_html)]

\* a scraper that runs both strategies and prefers the custom one
scrape_article_content_trace_both(pg) ==
    IF ~pg.fetched THEN [calls |-> <<>>, result |-> NoResult]
    ELSE [calls |-> <<"scrape_with_beautifulsoup", "scrape_with_trafilatura">>,
          result |-> IF scrape_with_beautifulsoup(pg).ok
                     THEN scrape_with_beautifulsoup(pg)
                     ELSE IF scrape_with_trafilatura(pg).ok
                     THEN scrape_with_trafilatura(pg)
                     ELSE NoResult]

\* scraper.py:12-43: the strategies called, in order, and what is returned
scrape_article_content_trace(pg) ==
    IF ~pg.fetched THEN [calls |-> <<>>, result |-> NoResult]
    ELSE IF scrape_with_beautifulsoup(pg).ok
    THEN [calls |-> <<"scrape_with_beautifulsoup">>,
          result |-> scrape_with_beautifulsoup(pg)]
    ELSE [calls |-> <<"scrape_with_beautifulsoup", "scrape_with_trafilatura">>,
          result |-> IF scrape_with_trafilatura(pg).ok
                     THEN scrape_with_trafilatura(pg)
                     ELSE NoResult]

\* scraper.py:7-43
scrape_article_content(pg) == scrape_article_content_trace(pg).result

\* What trafilatura.extract(..., output_format='html') returns: None, the
\* empty string, or a document <html><body>...</body></html> of any pieces,
\* with text or without.
DocPieces ==
    {WS, Piece("p", <<>>, ""), Piece("p", Chars(MinParagraphLen), ""),
     Piece("h1", Chars(MinParagraphLen - 1), ""), Piece("img", <<>>, "http://cdn/pic.jpg")}

ExtractOutputs ==
    {[none |-> TRUE, html |-> <<>>], [none |-> FALSE, html |-> <<>>]}
    \cup { [none |-> FALSE,
            html |-> <<Piece("html", <<>>, ""), Piece("body", <<>>, "")>> \o inner
                     \o <<Piece("/body", <<>>, ""), Piece("/html", <<>>, "")>>] :
           inner \in SeqsUpTo(DocPieces, MaxDocLen) }

NoPage == [fetched |-> FALSE, body |-> FALSE, nodes |-> <<>>,
           extract |-> [none |-> TRUE, html |-> <<>>]]

Pages ==
    {NoPage}
    \cup { [fetched |-> TRUE, body |-> FALSE, nodes |-> <<>>, extract |-> x] :
           x \in ExtractOutputs }
    \cup { [fetched |-> TRUE, body |-> TRUE, nodes |-> ns, extract |-> x] :
           ns \in SeqsUpTo(Nodes, MaxNodes), x \in ExtractOutputs }

NotScraped == [done |-> FALSE, result |-> NoResult, calls |-> <<>>]

ScrapeIdle ==
    /\ page = NoPage
    /\ scraped = NotScraped

(***************************************************************************)
(* telegram_bot.py: the draft and its publish text                         *)
(***************************************************************************)
\* telegram_bot.py:24
message_text(title, short_description, original_url) ==
    <<BOLD>> \o title \o <<UNBOLD, NL, NL>> \o short_description
        \o <<NL, NL, Tok("a1", original_url), SOURCE_END>>

\* Message.text_html: the stored text and entities rendered as HTML again;
\* every anchor comes back with a double-quoted href.
text_html(text) ==
    [n \in DOMAIN text |-> IF text[n].k = "a1" THEN Tok("a2", text[n].v) ELSE text[n]]

IdStrs == <<"1", "2", "3", "4", "5", "6">>
\* telegram_bot.py:14  f"pub_{article_id}"
callback_data_of(article_id) == <<"pub_", IdStrs[article_id]>>

\* telegram_bot.py:54  int(callback_data.replace("pub_", "")); -1: ValueError
article_id_of(callback_data) ==
    LET rest == SelectSeq(callback_data, LAMBDA x : x # "pub_")
    IN  IF Len(rest) = 1 /\ \E n \in DOMAIN IdStrs : IdStrs[n] = rest[1]
        THEN CHOOSE n \in DOMAIN IdStrs : IdStrs[n] = rest[1]
        ELSE -1

RECURSIVE split_lines(_)
\* str.split('\n')
split_lines(text) ==
    IF \A n \in DOMAIN text : text[n] # NL THEN <<text>>
    ELSE LET n == CHOOSE m \in DOMAIN text :
                     text[m] = NL /\ \A q \in 1..(m - 1) : text[q] # NL
         IN  <<SubSeq(text, 1, n - 1)>> \o split_lines(SubSeq(text, n + 1, Len(text)))

RECURSIVE join_lines(_)
\* '\n'.join(lines)
join_lines(lines) ==
    IF lines = <<>> THEN <<>>
    ELSE IF Len(lines) = 1 THEN lines[1]
    ELSE lines[1] \o <<NL>> \o join_lines(Tail(lines))

IsSpace(tok) == tok.k \in {"nl", "sp"}

RECURSIVE lstrip(_)
lstrip(text) ==
    IF text # <<>> /\ IsSpace(Head(text)) THEN lstrip(Tail(text)) ELSE text

RECURSIVE rstrip(_)
rstrip(text) ==
    IF text # <<>> /\ IsSpace(text[Len(text)])
    THEN rstrip(SubSeq(text, 1, Len(text) - 1)) ELSE text

\* str.strip()
strip(text) == rstrip(lstrip(text))

\* a filter that keeps every line
keep_line_all(line) == TRUE

\* telegram_bot.py:82  not ('<a href=' in line and 'Джерело</a>' in line)
keep_line(line) ==
    ~ (/\ \E n \in DOMAIN line : line[n].k \in {"a1", "a2"}
       /\ \E n \in DOMAIN line : line[n] = SOURCE_END)

\* telegram_bot.py:75-86
publish_text_of(original_text) ==
    strip(join_lines(SelectSeq(split_lines(original_text), keep_line)))

\* telegram_bot.py:64,154,166,178: the draft's text with the annotation
annotated(text, label) == text \o <<NL, NL, BOLD, W(label), UNBOLD>>

\* telegram_bot.py:11-33: the message it posts to the review channel
send_for_moderation(title, short_description, original_url, article_id) ==
    [text |-> text_html(message_text(title, short_description, original_url)),
     data |-> callback_data_of(article_id),
     keyboard |-> TRUE]

(***************************************************************************)
(* test_sender.py: resends the newest hosted rows for moderation           *)
(***************************************************************************)
RECURSIVE HostedFrom(_, _)
HostedFrom(table, i) ==
    IF i = 0 THEN <<>>
    ELSE IF table[i].telegraph_url # NULL /\ table[i].translated_content # NULL
         THEN <<i>> \o HostedFrom(table, i - 1)
         ELSE HostedFrom(table, i - 1)

\* test_sender.py:20-28
rows_to_resend(table) ==
    LET all == HostedFrom(table, Len(table))
    IN  SubSeq(all, 1, IF Len(all) < 5 THEN Len(all) ELSE 5)

MockDescription == <<W("test"), SP, W("send")>>

\* test_sender.py:13-35
SenderStart ==
    /\ UNCHANGED notModeration
    /\ sender = <<>>
    /\ rows_to_resend(articles) # <<>>
    /\ Len(drafts) + Len(rows_to_resend(articles)) <= MaxDrafts
    /\ sender' = rows_to_resend(articles)
    /\ UNCHANGED <<webhook_url, drafts, queue, pressed, handler, posts, lastEvent>>

\* test_sender.py:37-58: one iteration; a failed send is printed and skipped
SenderSend ==
    /\ UNCHANGED notModeration
    /\ sender # <<>>
    /\ \E ok \in BOOLEAN :
         LET id == Head(sender)
             row == articles[id]
         IN  drafts' =
               IF ok
               THEN Append(drafts, send_for_moderation(row.title, MockDescription,
                                                       row.original_url, id))
               ELSE drafts
    /\ sender' = Tail(sender)
    /\ UNCHANGED <<webhook_url, queue, pressed, handler, posts, lastEvent>>

(***************************************************************************)
(* telegram_bot.py: handle_publish_callback.  The application handles one  *)
(* update at a time; a callback query carries the message as it was when   *)
(* the button was pressed.                                                 *)
(***************************************************************************)
NoEvent == [eid |-> 0, draft |-> 0, text |-> <<>>, data |-> <<>>]
IdleHandler == [pc |-> "idle", ev |-> NoEvent, label |-> "none", acked |-> "none",
                sent |-> FALSE, hook |-> "none"]
NoOutcome == [ev |-> NoEvent, acked |-> "none", sent |-> FALSE, label |-> "none",
              edited |-> FALSE, hook |-> "none"]

\* The operator presses the approval button of a draft.
Press(d) ==
    /\ UNCHANGED notModeration
    /\ drafts[d].keyboard
    /\ pressed < MaxEvents
    /\ pressed' = pressed + 1
    /\ queue' = Append(queue, [eid |-> pressed + 1, draft |-> d,
                               text |-> drafts[d].text, data |-> drafts[d].data])
    /\ UNCHANGED <<webhook_url, drafts, sender, handler, posts, lastEvent>>

\* a check that lets an article through once only
is_publishable_once(article) ==
    /\ article.found
    /\ article.telegraph_url # NULL
    /\ ~(lastEvent.sent /\ article_id_of(lastEvent.ev.data) = article.id)

\* a check that forgets the hosted URL
is_publishable_found_only(article) == article.found

\* telegram_bot.py:60  not (not article or not article.get('telegraph_url'))
is_publishable(article) == article.found /\ article.telegraph_url # NULL

Finish(h, edited) ==
    /\ handler' = IdleHandler
    /\ lastEvent' = [ev |-> h.ev, acked |-> h.acked, sent |-> h.sent,
                     label |-> h.label, edited |-> edited, hook |-> h.hook]

\* a missing or unhosted article that is published all the same
on_not_publishable_ignored(h) == [h EXCEPT !.pc = "send"]

\* telegram_bot.py:60-70: the handler goes for the "not found" annotation and
\* returns
on_not_publishable(h) == [h EXCEPT !.pc = "edit_error", !.label = "not found"]

\* a payload that is no number taken for a publishable article
on_value_error_ignored(h) == [h EXCEPT !.pc = "send"]

\* telegram_bot.py:54,162-171: int() raises ValueError, whose handler goes for
\* the "invalid id" annotation
on_value_error(h) == [h EXCEPT !.pc = "edit_error", !.label = "bad id"]

\* telegram_bot.py:35-72: the acknowledgement, then (without a suspension
\* point) the id, the lookup and the choice of the branch.
HAnswer ==
    /\ UNCHANGED <<today, tickVars, textVars, scrapeVars, storeVars, otherVars>>
    /\ handler.pc = "idle"
    /\ queue # <<>>
    /\ queue' = Tail(queue)
    /\ \E ack \in {"ok", "too old", "error"} :
         LET ev == Head(queue)
             h == [IdleHandler EXCEPT !.ev = ev, !.acked = ack]
             article_id == article_id_of(ev.data)
         IN  IF ack = "error" \/ Head(ev.data) # "pub_"
             THEN Finish(h, FALSE) /\ UNCHANGED articles
             ELSE /\ articles' = IF article_id = -1 THEN articles
                                 ELSE get_article_by_id_effect(articles, article_id)
                  /\ handler' =
                       IF article_id = -1
                       THEN on_value_error(h)
                       ELSE IF ~is_publishable(get_article_by_id(articles, article_id))
                       THEN on_not_publishable(h)
                       ELSE [h EXCEPT !.pc = "send"]
                  /\ UNCHANGED lastEvent
    /\ UNCHANGED <<webhook_url, drafts, sender, pressed, posts>>

\* edit_message_text of the pressed draft: a new text and no keyboard
Edited(ev, label) ==
    [drafts EXCEPT ![ev.draft] = [text |-> annotated(ev.text, label),
                                  data |-> @.data, keyboard |-> FALSE]]

\* telegram_bot.py:62-70, 164-171, 176-183: the error annotation; a failed
\* edit is printed and swallowed.
HEditError ==
    /\ UNCHANGED notModeration
    /\ handler.pc = "edit_error"
    /\ \E ok \in BOOLEAN :
         /\ drafts' = IF ok THEN Edited(handler.ev, handler.label) ELSE drafts
         /\ Finish(handler, ok)
    /\ UNCHANGED <<webhook_url, sender, queue, pressed, posts>>

\* a webhook failure that reaches the handler's outer except
after_webhook_unhandled(h, result) ==
    IF result = "delivered" THEN [h EXCEPT !.pc = "edit_ok"]
    ELSE [h EXCEPT !.pc = "edit_error", !.label = "publish failed"]

\* telegram_bot.py:141-151: every outcome of the webhook logic, its failures
\* caught and printed, leads on to the success annotation
after_webhook(h, result) == [h EXCEPT !.pc = "edit_ok"]

\* telegram_bot.py:88-119, 172-175.  The send fails (always for an empty
\* text) or posts publish_text; with a webhook address the post body is then
\* generated, which may raise.
HSend ==
    /\ UNCHANGED notModeration
    /\ handler.pc = "send"
    /\ LET text == publish_text_of(handler.ev.text)
       IN  \E ok \in {FALSE} \cup {text # <<>>}, generated \in BOOLEAN :
             IF ~ok
             THEN /\ handler' = [handler EXCEPT !.pc = "edit_error",
                                                !.label = "publish failed"]
                  /\ UNCHANGED posts
             ELSE /\ posts' = Append(posts, [eid |-> handler.ev.eid, text |-> text])
                  /\ handler' =
                       IF webhook_url = NULL
                       THEN [handler EXCEPT !.pc = "edit_ok", !.sent = TRUE,
                                            !.hook = "off"]
                       ELSE IF generated
                       THEN [handler EXCEPT !.pc = "webhook", !.sent = TRUE,
                                            !.hook = "pending"]
                       ELSE after_webhook([handler EXCEPT !.sent = TRUE,
                                                          !.hook = "failed"], "failed")
    /\ UNCHANGED <<webhook_url, drafts, sender, queue, pressed, lastEvent>>

\* telegram_bot.py:137-148: the POST to the webhook; every failure is printed
HWebhook ==
    /\ UNCHANGED notModeration
    /\ handler.pc = "webhook"
    /\ \E result \in {"delivered", "timeout", "request error", "bad status"} :
         handler' = after_webhook([handler EXCEPT !.hook = result], result)
    /\ UNCHANGED <<webhook_url, drafts, sender, queue, pressed, posts, lastEvent>>

\* a failed success annotation that reaches the handler's outer except
on_success_edit_failed_outer(h) ==
    [h EXCEPT !.pc = "edit_error", !.label = "publish failed"]

\* telegram_bot.py:158-160: a failed success annotation is printed; the
\* handler is over
on_success_edit_failed(h) == [h EXCEPT !.pc = "idle"]

\* telegram_bot.py:151-160: the success annotation; a failed edit is swallowed
HEditOk ==
    /\ UNCHANGED notModeration
    /\ handler.pc = "edit_ok"
    /\ \E ok \in BOOLEAN :
         LET h == [handler EXCEPT !.label = "published"]
         IN  IF ok
             THEN /\ drafts' = Edited(handler.ev, "published")
                  /\ Finish(h, TRUE)
             ELSE /\ drafts' = drafts
                  /\ IF on_success_edit_failed(h).pc = "idle"
                     THEN Finish(h, FALSE)
                     ELSE /\ handler' = on_success_edit_failed(h)
                          /\ UNCHANGED lastEvent
    /\ UNCHANGED <<webhook_url, sender, queue, pressed, posts>>

NotPublished == [done |-> FALSE, text |-> <<>>]

TextIdle ==
    /\ draft_html = <<>>
    /\ publish_text = NotPublished

ModIdle ==
    /\ webhook_url = NULL
    /\ drafts = <<>>
    /\ sender = <<>>
    /\ queue = <<>>
    /\ pressed = 0
    /\ handler = IdleHandler
    /\ posts = <<>>
    /\ lastEvent = NoOutcome

\* The rows and drafts a process can find at its start.  The review channel
\* outlives both the process and news.db: a draft may name an id the table
\* does not hold, or carry a payload that is no number.
LinkedRow(u, d) ==
    Row(u, <<Tok("a2", PageOf(u)), W("word"), ENDA, SP, W("rest")>>, "rewritten",
        "rewritten", PageOf(u), Stamp(d, 0))

\* The handler looks one row up per event: the table holds no row or one.
InitStoresM ==
    {<<>>} \cup { <<r>> : r \in { HostedRow(u, 2) : u \in Links }
                              \cup { LinkedRow(u, 2) : u \in Links }
                              \cup { SentinelRow(u, 2) : u \in Links } }

OldDrafts ==
    { [text |-> text_html(message_text(<<W("old")>>, <<W("summary")>>, "urlA")),
       data |-> <<"pub_", x>>, keyboard |-> TRUE] : x \in {"1", "2", "x"} }

InitModeration ==
    /\ articles \in InitStoresM
    /\ today = 2
    /\ TickInit
    /\ TextIdle
    /\ ScrapeIdle
    /\ StoreIdle
    /\ OtherIdle
    /\ webhook_url \in {NULL, "hook"}
    /\ drafts \in {<<>>} \cup { <<d>> : d \in OldDrafts }
    /\ sender = <<>>
    /\ queue = <<>>
    /\ pressed = 0
    /\ handler = IdleHandler
    /\ posts = <<>>
    /\ lastEvent = NoOutcome

NextModeration ==
    \/ SenderStart
    \/ SenderSend
    \/ \E d \in DOMAIN drafts : Press(d)
    \/ HAnswer
    \/ HEditError
    \/ HSend
    \/ HWebhook
    \/ HEditOk

SpecModeration == InitModeration /\ [][NextModeration]_vars

(***************************************************************************)
(* SpecText: the publish text of every short draft text                    *)
(***************************************************************************)
TextAlphabet == {NL, SP, W("w"), Tok("a2", "u"), SOURCE_END}

InitText ==
    /\ articles = <<>>
    /\ today = 2
    /\ TickInit
    /\ ModIdle
    /\ ScrapeIdle
    /\ StoreIdle
    /\ OtherIdle
    /\ draft_html \in SeqsUpTo(TextAlphabet, MaxTextLen)
    /\ publish_text = NotPublished

\* telegram_bot.py:75-86
Publish ==
    /\ ~publish_text.done
    /\ publish_text' = [done |-> TRUE, text |-> publish_text_of(draft_html)]
    /\ UNCHANGED <<articles, today, tickVars, modVars, scrapeVars, storeVars, otherVars,
                   draft_html>>

NextText == Publish

SpecText == InitText /\ [][NextText]_vars

(***************************************************************************)
(* SpecScrape: scrape_article_content on every small page                  *)
(***************************************************************************)
InitScrape ==
    /\ articles = <<>>
    /\ today = 2
    /\ TickInit
    /\ ModIdle
    /\ TextIdle
    /\ StoreIdle
    /\ OtherIdle
    /\ page \in Pages
    /\ scraped = NotScraped

\* main.py:76: one call of scrape_article_content for the candidate's page
ScrapeArticleContent ==
    /\ ~scraped.done
    /\ scraped' = [done |-> TRUE, result |-> scrape_article_content(page),
                   calls |-> scrape_article_content_trace(page).calls]
    /\ UNCHANGED <<articles, today, tickVars, modVars, textVars, storeVars, otherVars,
                   page>>

NextScrape == ScrapeArticleContent

SpecScrape == InitScrape /\ [][NextScrape]_vars

(***************************************************************************)
(* SpecStore: the functions of database.py, and the calls main.py makes of *)
(* them, on every small table                                              *)
(***************************************************************************)
InitStore ==
    /\ articles \in InitStores
    /\ today = 2
    /\ TickInit
    /\ ModIdle
    /\ TextIdle
    /\ ScrapeIdle
    /\ StoreIdle
    /\ OtherIdle

\* database.py:25-40: add_article_base called with its three parameters
StoreAddBase(u) ==
    /\ Len(articles) < MaxRows
    /\ \E original_content \in {"page", SENTINEL} :
         LET r == add_article_base(articles, u, <<W("new")>>, original_content)
         IN  /\ articles' = r.table
             /\ dbcall' = [NoDbCall EXCEPT !.op = "add_article_base", !.url = u,
                                            !.before = articles, !.id = r.id]
    /\ UNCHANGED <<today, second, tickVars, modVars, textVars, scrapeVars, otherVars>>

\* main.py:152: the persist call of the orchestrator, as it is written
StorePersistCall(u) ==
    /\ Len(articles) < MaxRows
    /\ LET args == SubSeq(<<u, <<W("new")>>, "rewritten", NULL, NULL>>, 1,
                          PersistCallArgs)
           c == call_add_article_base(articles, args)
       IN  /\ articles' = c.res.table
           /\ dbcall' = [NoDbCall EXCEPT !.op = "persist", !.url = u,
                                          !.before = articles, !.raised = c.raised,
                                          !.id = c.res.id]
    /\ UNCHANGED <<today, second, tickVars, modVars, textVars, scrapeVars, otherVars>>

\* database.py:42-52, called as main.py:170 does
StoreUpdate(article_id) ==
    /\ \E translated_content \in {"rewritten", "page"}, u \in Links :
         /\ articles' = update_article_translation(articles, article_id,
                                                   translated_content, PageOf(u))
         /\ dbcall' = [NoDbCall EXCEPT !.op = "update_article_translation",
                                        !.before = articles, !.id = article_id,
                                        !.content = translated_content,
                                        !.telegraph = PageOf(u)]
    /\ UNCHANGED <<today, second, tickVars, modVars, textVars, scrapeVars, otherVars>>

\* a second passes on the clock
ClockSecond ==
    /\ second < MaxSecond
    /\ second' = second + 1
    /\ UNCHANGED <<articles, today, dbcall, tickVars, modVars, textVars, scrapeVars,
                   otherVars>>

NextStore ==
    \/ ClockSecond
    \/ \E u \in Links : StoreAddBase(u)
    \/ \E u \in Links : StorePersistCall(u)
    \/ \E article_id \in 1..MaxRows : StoreUpdate(article_id)

SpecStore == InitStore /\ [][NextStore]_vars

(***************************************************************************)
(* SpecContext: get_todays_articles_content on every table of up to        *)
(* MaxTable rows.  Row i was the i-th to be inserted, today or on the day  *)
(* before, in the same second as the row before it or later, with a        *)
(* content of its own or with none.                                        *)
(***************************************************************************)
ContextRow(i, d, s, with_content) ==
    Row(ToString(i), <<W("old")>>, IF with_content THEN ToString(i) ELSE NULL,
        NULL, NULL, Stamp(d, s))

InitContext ==
    /\ \E n \in 0..MaxTable :
         \E days \in [1..n -> Days], secs \in [1..n -> 0..MaxSecond],
            filled \in [1..n -> BOOLEAN] :
            /\ \A i \in 1..(n - 1) :
                  ~Later(Stamp(days[i], secs[i]), Stamp(days[i + 1], secs[i + 1]))
            /\ articles = [i \in 1..n |-> ContextRow(i, days[i], secs[i], filled[i])]
    /\ today = 2
    /\ TickInit
    /\ ModIdle
    /\ TextIdle
    /\ ScrapeIdle
    /\ StoreIdle
    /\ OtherIdle

\* database.py:63-77, called as main.py:95 does
StoreTodays ==
    /\ dbcall.op = "none"
    /\ dbcall' = [NoDbCall EXCEPT !.op = "get_todays_articles_content",
                                  !.before = articles,
                                  !.result = get_todays_articles_content(articles)]
    /\ UNCHANGED <<articles, today, second, tickVars, modVars, textVars, scrapeVars,
                   otherVars>>

NextContext == StoreTodays

SpecContext == InitContext /\ [][NextContext]_vars

(***************************************************************************)
(* SpecTrim: the trim of titles and descriptions (scraper.py:56, 103, 171, *)
(* 219; ai_handler.py:116, 118) on every short string.  A string is here a *)
(* sequence of characters.                                                 *)
(***************************************************************************)
\* the argument of rstrip: '.,;:!?-' and the en and em dashes
Punctuation == {".", ",", ";", ":", "!", "?", "-", "en dash", "em dash"}
\* what str.strip() without an argument removes
Whitespace == {" ", "tab", "newline"}

RECURSIVE rstrip_chars(_, _)
\* str.rstrip(chars)
rstrip_chars(s, chars) ==
    IF s = <<>> THEN s
    ELSE IF s[Len(s)] \in chars THEN rstrip_chars(SubSeq(s, 1, Len(s) - 1), chars)
    ELSE s

RECURSIVE lstrip_chars(_, _)
\* str.lstrip(chars)
lstrip_chars(s, chars) ==
    IF s = <<>> THEN s
    ELSE IF Head(s) \in chars THEN lstrip_chars(Tail(s), chars)
    ELSE s

\* s.rstrip('.,;:!?-...').strip()
trim_punctuation(s) ==
    lstrip_chars(rstrip_chars(rstrip_chars(s, Punctuation), Whitespace), Whitespace)

\* a letter, two of the punctuation characters and the blank
TrimAlphabet == {"a", ".", "-", " "}

InitTrim ==
    /\ articles = <<>>
    /\ today = 2
    /\ TickInit
    /\ ModIdle
    /\ TextIdle
    /\ ScrapeIdle
    /\ StoreIdle
    /\ feed = NoFeed
    /\ latest = NotPolled
    /\ trim \in { <<s>> : s \in SeqsUpTo(TrimAlphabet, MaxChars) }

\* the trim applied to the string, and then to its own result
Trim ==
    /\ Len(trim) \in {1, 2}
    /\ trim' = Append(trim, trim_punctuation(trim[Len(trim)]))
    /\ UNCHANGED <<articles, today, tickVars, modVars, textVars, scrapeVars, storeVars,
                   feedVars>>

NextTrim == Trim

SpecTrim == InitTrim /\ [][NextTrim]_vars

(***************************************************************************)
(* SpecFeed: rss_reader.py on every small parsed feed.  An entry is what   *)
(* feedparser made of one item: its keys are present or absent, and        *)
(* published_parsed, when present, is a time tuple or None (a date that    *)
(* feedparser could not parse).                                            *)
(***************************************************************************)
ABSENT == "absent"
NoStamp == [has |-> ABSENT, t |-> 0]
NoneStamp == [has |-> "None", t |-> 0]
TimeStamp(n) == [has |-> "time", t |-> n]
Stamps == {NoStamp, NoneStamp} \cup { TimeStamp(n) : n \in {1, 2} }

Entry(i, title, stamp) ==
    [title |-> title, link |-> ToString(i), published_parsed |-> stamp]

Feeds ==
    { [bozo |-> b, entries |-> e] :
        b \in BOOLEAN,
        e \in UNION { { [i \in 1..n |-> Entry(i, titles[i], stamps[i])] :
                           titles \in [1..n -> {"headline", ABSENT}],
                           stamps \in [1..n -> Stamps] } :
                      n \in 0..MaxEntries } }

\* rss_reader.py:27  key=lambda x: x.get('published_parsed', (0,)): the time
\* tuple, (0,) for an absent key; None for a present key that holds None
sort_key(entry) ==
    IF entry.published_parsed.has = "time" THEN entry.published_parsed.t ELSE 0

\* sorted(): every element of a list of two or more is compared with another
\* one; None compared with a tuple or with None is a TypeError
compare_raises(entries) ==
    /\ Len(entries) >= 2
    /\ \E i \in DOMAIN entries : entries[i].published_parsed.has = "None"

Without(s, i) == SubSeq(s, 1, i - 1) \o SubSeq(s, i + 1, Len(s))

RECURSIVE sorted_reverse(_)
\* sorted(entries, key=..., reverse=True): descending and stable (entries of
\* equal keys keep the order of the feed)
sorted_reverse(entries) ==
    IF entries = <<>> THEN <<>>
    ELSE LET first == CHOOSE i \in DOMAIN entries :
                         /\ \A j \in DOMAIN entries :
                               sort_key(entries[j]) <= sort_key(entries[i])
                         /\ \A j \in 1..(i - 1) :
                               sort_key(entries[j]) < sort_key(entries[i])
         IN  <<entries[first]>> \o sorted_reverse(Without(entries, first))

\* rss_reader.py:5-39.  entry.title of an entry without the key is an
\* AttributeError.
get_latest_articles(parsed, count) ==
    IF parsed.bozo \/ parsed.entries = <<>>
    THEN [raised |-> FALSE, articles |-> <<>>]
    ELSE IF compare_raises(parsed.entries)
    THEN [raised |-> TRUE, articles |-> <<>>]
    ELSE LET sorted_entries == sorted_reverse(parsed.entries)
             latest_entries ==
                SubSeq(sorted_entries, 1,
                       IF count < Len(sorted_entries) THEN count
                       ELSE Len(sorted_entries))
         IN  IF \E k \in DOMAIN latest_entries : latest_entries[k].title = ABSENT
             THEN [raised |-> TRUE, articles |-> <<>>]
             ELSE [raised |-> FALSE,
                   articles |-> [k \in DOMAIN latest_entries |->
                                   [title |-> latest_entries[k].title,
                                    link |-> latest_entries[k].link]]]

InitFeed ==
    /\ articles = <<>>
    /\ today = 2
    /\ TickInit
    /\ ModIdle
    /\ TextIdle
    /\ ScrapeIdle
    /\ StoreIdle
    /\ trim = NoTrim
    /\ feed \in Feeds
    /\ latest = NotPolled

\* main.py:39  get_latest_articles(feed_url, RSS_ARTICLES_COUNT)
GetLatestArticles(count) ==
    /\ ~latest.done
    /\ LET r == get_latest_articles(feed, count)
       IN  latest' = [done |-> TRUE, count |-> count, raised |-> r.raised,
                      articles |-> r.articles]
    /\ UNCHANGED <<articles, today, tickVars, modVars, textVars, scrapeVars, storeVars,
                   trimVars, feed>>

NextFeed == \E count \in 1..MaxCount : GetLatestArticles(count)

SpecFeed == InitFeed /\ [][NextFeed]_vars

(***************************************************************************)
(* Spec: the ticks of check_news_job                                       *)
(***************************************************************************)
Init ==
    /\ articles \in InitStores
    /\ today = 2
    /\ TickInit
    /\ ModIdle
    /\ TextIdle
    /\ ScrapeIdle
    /\ StoreIdle
    /\ OtherIdle

Next ==
    \E t \in Callers :
       \/ CheckNewsJob(t)
       \/ Gate(t)
       \/ Scrape(t)
       \/ Context(t)
       \/ Judge(t)
       \/ DupInsert(t)
       \/ Rewrite(t)
       \/ Title(t)
       \/ Host(t)
       \/ Insert(t)

Spec == Init /\ [][Next]_vars

(***************************************************************************)
(* SpecLoop: main.py:225-237.  The scheduled job and the callback handler  *)
(* are coroutines of one event loop: a step of the handler can fall between *)
(* any two steps of a tick.  A tick that has just started on a batch of    *)
(* one candidate, and the approval events of one draft.                    *)
(***************************************************************************)
InitLoop ==
    /\ articles \in {<<HostedRow("urlA", 2)>>, <<SentinelRow("urlA", 2)>>}
    /\ today = 2
    /\ processing_lock = TRUE
    /\ \E u \in Links :
          job = [t \in Callers |->
                   IF t = "scheduler"
                   THEN [IdleJob EXCEPT !.pc = "gate", !.batch = <<Candidate(u)>>,
                                        !.i = 1]
                   ELSE IdleJob]
    /\ lastCall = [caller |-> "scheduler", result |-> "started"]
    /\ lastRun = NoRun
    /\ dupVerdict = [u \in Links |-> "no"]
    /\ extractFailed = [u \in Links |-> "no"]
    /\ TextIdle
    /\ ScrapeIdle
    /\ StoreIdle
    /\ OtherIdle
    /\ webhook_url \in {NULL, "hook"}
    /\ drafts = <<send_for_moderation(<<W("old")>>, <<W("summary")>>, "urlA", 1)>>
    /\ sender = <<>>
    /\ queue = <<>>
    /\ pressed = 0
    /\ handler = IdleHandler
    /\ posts = <<>>
    /\ lastEvent = NoOutcome

TickBody ==
    \E t \in {"scheduler"} :
       \/ Gate(t)
       \/ Scrape(t)
       \/ Context(t)
       \/ Judge(t)
       \/ DupInsert(t)
       \/ Rewrite(t)
       \/ Title(t)
       \/ Host(t)
       \/ Insert(t)

NextLoop ==
    \/ TickBody
    \/ \E d \in DOMAIN drafts : Press(d)
    \/ HAnswer
    \/ HEditError
    \/ HSend
    \/ HWebhook
    \/ HEditOk

SpecLoop == InitLoop /\ [][NextLoop]_vars

(***************************************************************************)
(* Properties of the tick (under Spec).                                    *)
(***************************************************************************)
Range(f) == { f[x] : x \in DOMAIN f }
RowsFor(u) == { i \in DOMAIN articles : articles[i].original_url = u }
HasRow(u) == RowsFor(u) # {}
InBody(t) == job[t].pc # "idle"
PostGate == {"scrape", "context", "judge", "dupinsert", "rewrite", "title", "host",
             "insert"}

\* C1 (as claimed): no two rows share an original_url, and a link whose
\* candidate run went through its persist step (the insert after hosting, or
\* the sentinel insert after a duplicate verdict) has exactly one row.
C1_OneRowPerUrl ==
    /\ \A u \in Links : Cardinality(RowsFor(u)) <= 1
    /\ (\E n \in DOMAIN lastRun.trail : lastRun.trail[n] \in {"insert", "insert_duplicate"})
          => Cardinality(RowsFor(lastRun.link)) = 1

\* C2: an invocation that finds the lock held returns at once and changes
\* nothing; a tick body starts only in the step of an invocation that found
\* the lock free (nothing is queued); at most one body runs at a time.
C2_SingleFlight ==
    [][\A t \in Callers :
         /\ (lastCall' # lastCall /\ lastCall'.caller = t /\ lastCall'.result = "dropped")
               => /\ processing_lock
                  /\ \E o \in Callers \ {t} : InBody(o)
                  /\ UNCHANGED <<articles, processing_lock, job, lastRun, dupVerdict,
                                 extractFailed>>
         /\ (~InBody(t) /\ InBody(t)')
               => /\ ~processing_lock /\ processing_lock'
                  /\ lastCall' = [caller |-> t, result |-> "started"]
         /\ Cardinality({ o \in Callers : InBody(o)' }) <= 1
         /\ processing_lock' = (\E o \in Callers : InBody(o)')]_vars

C2_Witness ==
    /\ lastCall.result = "dropped"
    /\ processing_lock
    /\ \E o \in Callers \ {lastCall.caller} : job[o].pc = "host"

PastGateChecked(t) ==
    job[t].pc \in PostGate => job[t].trail[1] = "exists" /\ ~HasRow(Link(t))

\* C3: every candidate run starts with the exists check; a candidate whose
\* link has a row ends there, with no fetch, judgment, rewrite or hosting call
\* and no store write; only links without a row get past the gate.
C3_ExistsGateFirst ==
    [][\A t \in Callers :
         /\ (job[t].pc = "gate" /\ job'[t] # job[t] /\ HasRow(Link(t)))
               => /\ articles' = articles
                  /\ job'[t].pc \in {"gate", "idle"}
                  /\ lastRun' = [link |-> Link(t), trail |-> <<"exists">>,
                                 end |-> "seen"]
         /\ PastGateChecked(t)'
         /\ (lastRun'.end # "none") => lastRun'.trail[1] = "exists"]_vars

C3_Witness ==
    \E t \in Callers :
        /\ job[t].i = 2 /\ job[t].pc = "context"
        /\ ~HasRow(Link(t))
        /\ HasRow(job[t].batch[1].link)
        /\ lastRun = [link |-> job[t].batch[1].link, trail |-> <<"exists">>,
                      end |-> "seen"]

\* C4 (as claimed): a candidate run that got a duplicate verdict leaves one
\* row for its link, with the sentinel as content, and made no hosting call.
C4_DuplicateVerdictRow ==
    (\E n \in DOMAIN lastRun.trail : lastRun.trail[n] = "insert_duplicate")
       => /\ Cardinality(RowsFor(lastRun.link)) = 1
          /\ \A i \in RowsFor(lastRun.link) : articles[i].original_content = SENTINEL
          /\ \A n \in DOMAIN lastRun.trail : lastRun.trail[n] # "host"

\* C5 (as claimed): a link that got a duplicate verdict in an earlier tick
\* never gets past the exists gate again.
C5_DuplicateNeverRetried ==
    \A t \in Callers :
        job[t].pc \in PostGate => dupVerdict[Link(t)] # "earlier"

\* C6: a failed extraction ends the candidate run after the fetch: nothing is
\* written, no judgment, rewrite, hosting or moderation call is made, and the
\* link still has no row, so it passes the exists gate of the next tick.
C6_ExtractionFailureSkips ==
    [][\A t \in Callers :
         /\ (job[t].pc = "scrape" /\ job'[t].pc \in {"gate", "idle"})
               => /\ articles' = articles
                  /\ lastRun' = [link |-> Link(t), trail |-> <<"exists", "fetch">>,
                                 end |-> "scrape_failed"]
                  /\ extractFailed'[Link(t)] # "no"
         /\ \A u \in Links : extractFailed'[u] # "no" => ~HasRow(u)']_vars

C6_Witness ==
    \E t \in Callers :
        /\ job[t].pc = "scrape"
        /\ extractFailed[Link(t)] = "earlier"

\* The link of the run that ended last with a failed hosting call is let
\* through by the exists gate when it is a candidate again.
GateOpenAfterHostFailure ==
    \A t \in Callers :
        (job[t].pc = "gate" /\ lastRun.end = "host_failed" /\ lastRun.link = Link(t))
           => ~article_exists(articles, Link(t))

\* C11: when the hosting call fails for a candidate, the run ends there: no
\* row is written (the link has none), no draft is sent for moderation, the
\* tick goes on with the next candidate of the batch (or ends, releasing the
\* lock, after the last one), and the link passes the exists gate when it is
\* a candidate again on a later tick.
C11_HostingFailureSkips ==
    [][/\ \A t \in Callers :
            (job[t].pc = "host" /\ job'[t].pc \in {"gate", "idle"})
               => /\ articles' = articles
                  /\ ~HasRow(Link(t))
                  /\ drafts' = drafts
                  /\ lastRun' = [link |-> Link(t),
                                 trail |-> Append(job[t].trail, "host"),
                                 end |-> "host_failed"]
                  /\ \A n \in DOMAIN lastRun'.trail :
                        lastRun'.trail[n] \notin {"insert", "insert_duplicate"}
                  /\ IF job[t].i < Len(job[t].batch)
                     THEN /\ job'[t].pc = "gate"
                          /\ job'[t].i = job[t].i + 1
                          /\ job'[t].batch = job[t].batch
                          /\ processing_lock'
                     ELSE job'[t] = IdleJob /\ ~processing_lock'
       /\ GateOpenAfterHostFailure']_vars

\* The first candidate of a tick is past the exists gate, and its link is the
\* one whose hosting failed in the run that ended last, on an earlier tick.
C11_Witness ==
    \E t \in Callers :
        /\ job[t].pc = "scrape"
        /\ job[t].i = 1
        /\ lastRun.end = "host_failed"
        /\ lastRun.link = Link(t)

\* C12 (as claimed): a failure raised at a stage of one candidate ends only
\* that candidate's run: while later candidates are left in the batch, no step
\* of the tick ends the tick.
C12_FailureAbortsOnlyCandidate ==
    [][\A t \in Callers :
          (job[t].pc # "idle" /\ job[t].i < Len(job[t].batch))
             => job'[t].pc # "idle"]_vars

\* C14: an exception raised while a tick is processed does not leave
\* check_news_job: the step that raises ends the tick, the caller is back at
\* its loop and the lock is free; the invocation that follows a raised tick is
\* therefore never dropped, it enters the body.
C14_ExceptionContainedInTick ==
    [][/\ \A t \in Callers :
            (/\ InBody(t)
             /\ job'[t] # job[t]
             /\ job'[t].pc \notin PostGate \cup {"update"}
             /\ lastRun'.end = "raised")
               => /\ job'[t] = IdleJob
                  /\ ~processing_lock'
       /\ \A t \in Callers :
            (/\ lastRun.end = "raised"
             /\ \A o \in Callers : ~InBody(o)
             /\ lastCall' # lastCall
             /\ lastCall'.caller = t)
               => /\ lastCall'.result \in {"started", "empty"}
                  /\ lastCall'.result = "started" => InBody(t)' /\ job'[t].pc = "gate"]_vars

\* The run that ended last raised, on an earlier tick, and the first
\* candidate of a later tick is being processed.
C14_Witness ==
    \E t \in Callers :
        /\ job[t].pc = "host"
        /\ job[t].i = 1
        /\ lastRun.end = "raised"

\* C20: a failed judgment call counts as a unique verdict (nothing is written,
\* the run goes on to the rewrite), a failed rewrite passes the extracted
\* content through, and the run goes on through the title synthesis to the
\* hosting call.
C20_ServiceFailureDegrades ==
    [][\A t \in Callers :
         /\ (/\ job[t].pc = "judge"
             /\ job'[t] # job[t]
             /\ job'[t].trail[Len(job'[t].trail)] = "judge_failed")
               => /\ job'[t].pc = "rewrite"
                  /\ articles' = articles
                  /\ dupVerdict' = dupVerdict
         /\ (/\ job[t].pc = "rewrite"
             /\ job'[t] # job[t]
             /\ job'[t].trail[Len(job'[t].trail)] = "rewrite_failed")
               => /\ job'[t].pc = "title"
                  /\ job'[t].processed = job[t].scraped
         /\ (job[t].pc = "title" /\ job'[t] # job[t])
               => /\ job'[t].pc = "host"
                  /\ job'[t].processed = job[t].processed]_vars

\* A candidate whose judgment and rewrite both failed is at the hosting call
\* with its extracted content.
C20_Witness ==
    \E t \in Callers :
        /\ job[t].pc = "host"
        /\ job[t].trail = <<"exists", "fetch", "context", "judge_failed",
                            "rewrite_failed", "title">>
        /\ job[t].processed = job[t].scraped

\* The stages of a candidate run in the order of main.py:54-188.
StageOrder == <<"exists", "fetch", "context", "judge", "rewrite", "title", "host",
                "insert", "update", "moderate">>
StageOf(step) ==
    IF step = "judge_failed" THEN "judge"
    ELSE IF step = "rewrite_failed" THEN "rewrite"
    ELSE step
StagesInOrder(trail) ==
    /\ Len(trail) <= Len(StageOrder)
    /\ \A k \in DOMAIN trail : StageOf(trail[k]) = StageOrder[k]
\* a run is a prefix of the stage order, or it leaves it after the judgment
\* for the call that marks a duplicate
RunInOrder(trail) ==
    \/ StagesInOrder(trail)
    \/ /\ Len(trail) = 5
       /\ StagesInOrder(SubSeq(trail, 1, 4))
       /\ trail[5] = "insert_duplicate"

\* C25: the stages a candidate run has executed are the first stages of the
\* fixed order exists check, extraction, context lookup, judgment, rewrite,
\* title synthesis, hosting, base insert, final update, moderation, each
\* once; a step adds one stage to the run; and the run enters the rewrite
\* from the judgment only, in a step that records no duplicate verdict.
C25_StagesInFixedOrder ==
    [][\A t \in Callers :
         /\ RunInOrder(job'[t].trail)
         /\ RunInOrder(lastRun'.trail)
         /\ (InBody(t) /\ InBody(t)' /\ job'[t].i = job[t].i /\ job'[t] # job[t])
               => /\ Len(job'[t].trail) = Len(job[t].trail) + 1
                  /\ SubSeq(job'[t].trail, 1, Len(job[t].trail)) = job[t].trail
         /\ (job'[t].pc = "rewrite" /\ job[t].pc # "rewrite")
               => /\ job[t].pc = "judge"
                  /\ dupVerdict' = dupVerdict]_vars

\* A run went through every stage up to the base insert, after a judgment
\* that had same-day content to compare with.
C25_Witness ==
    /\ lastRun.trail = <<"exists", "fetch", "context", "judge", "rewrite", "title",
                         "host", "insert">>
    /\ get_todays_articles_content(articles) # <<>>

\* C27 (as claimed): a link whose fetch failed in this tick is not fetched
\* again in this tick, whatever the batch, the same link coming from two
\* feeds included.
C27_NoRefetchInTick ==
    [][\A t \in Callers :
         (job[t].pc = "scrape" /\ job'[t] # job[t])
            => extractFailed[Link(t)] # "this"]_vars

\* C28 (as claimed): the candidates of a tick are processed one at a time in
\* the order of the batch (the next one starts in the step that ends the one
\* before it), and the delay step (the sleep of main.py:186-188) lies between
\* every two consecutive candidates: a run that is followed by another one
\* has ended with the delay.
C28_SequentialWithDelay ==
    [][\A t \in Callers :
         /\ InBody(t) => job'[t].i \in {0, job[t].i, job[t].i + 1}
         /\ (InBody(t) /\ job'[t].i = job[t].i + 1)
               => /\ job'[t].pc = "gate"
                  /\ lastRun'.link = Link(t)
                  /\ lastRun'.trail # <<>>
                  /\ lastRun'.trail[Len(lastRun'.trail)] = "sleep"]_vars

\* C35: the lock is held exactly while some tick body is executing.  Every
\* step that ends a body (the last candidate of the batch done with, or an
\* exception) frees it, and an invocation that finds an empty batch leaves
\* it free; so an invocation made when no body is executing is never dropped:
\* it finds an empty batch or enters its body.
C35_LockHeldExactlyInBody ==
    [][/\ processing_lock' = (\E t \in Callers : InBody(t)')
       /\ \A t \in Callers :
            /\ (InBody(t) /\ ~InBody(t)')
                  => /\ ~processing_lock'
                     /\ lastRun'.end \in {"seen", "scrape_failed", "duplicate",
                                          "host_failed", "conflict", "raised"}
            /\ (lastCall' # lastCall /\ lastCall'.caller = t
                   /\ lastCall'.result = "empty")
                  => ~processing_lock /\ ~processing_lock' /\ ~InBody(t)'
            /\ (lastCall' # lastCall /\ lastCall'.caller = t
                   /\ \A o \in Callers : ~InBody(o))
                  => /\ lastCall'.result \in {"started", "empty"}
                     /\ lastCall'.result = "started"
                           => InBody(t)' /\ processing_lock']_vars

\* A tick whose last candidate was skipped is over, and the first candidate
\* of a later tick is past its gate, under the lock.
C35_Witness ==
    \E t \in Callers :
        /\ job[t].pc = "scrape"
        /\ job[t].i = 1
        /\ processing_lock
        /\ lastRun.end \in {"seen", "scrape_failed", "host_failed"}
        /\ lastCall = [caller |-> t, result |-> "started"]

C21_UpdateIdempotentAndLocal ==
    (dbcall.op = "update_article_translation")
       => /\ update_article_translation(articles, dbcall.id, dbcall.content,
                                        dbcall.telegraph) = articles
          /\ Len(articles) = Len(dbcall.before)
          /\ \A i \in DOMAIN articles :
                IF i = dbcall.id
                THEN articles[i] =
                        [dbcall.before[i] EXCEPT
                            !.translated_content = dbcall.content,
                            !.telegraph_url = dbcall.telegraph]
                ELSE articles[i] = dbcall.before[i]

\* An update of one row of a table of two rows, made on an earlier day's row,
\* changed that row.
C21_Witness ==
    /\ dbcall.op = "update_article_translation"
    /\ Len(articles) = 2
    /\ dbcall.id \in DOMAIN articles
    /\ articles[dbcall.id].created_at.day # today
    /\ articles # dbcall.before

(***************************************************************************)
(* Properties of the same-day lookup (under SpecContext).                  *)
(***************************************************************************)
TodaysRows(table) ==
    { i \in DOMAIN table :
        table[i].created_at.day = today /\ table[i].original_content # NULL }
\* the row of the set with k - 1 rows of the set inserted after it
KthNewest(rows, k) == CHOOSE i \in rows : Cardinality({ j \in rows : j > i }) = k - 1

\* C22 (as claimed): get_todays_articles_content returns at most 5 contents;
\* they are the contents of the rows created on the current day that were
\* created last, the most recently created first; no content of a row of
\* another day is returned.
C22_TodaysContentBoundedNewestFirst ==
    (dbcall.op = "get_todays_articles_content")
       => LET rows == TodaysRows(articles)
              n == IF Cardinality(rows) < 5 THEN Cardinality(rows) ELSE 5
          IN  /\ Len(dbcall.result) = n
              /\ \A k \in 1..n :
                    dbcall.result[k] = articles[KthNewest(rows, k)].original_content
              /\ \A k \in 1..n : \A i \in DOMAIN articles :
                    articles[i].original_content = dbcall.result[k]
                       => articles[i].created_at.day = today

(***************************************************************************)
(* Properties of the trim (under SpecTrim).                                *)
(***************************************************************************)
\* C23 (as claimed): the trim of titles and descriptions is idempotent: the
\* trim of a trimmed string is that string.
C23_TrimIdempotent ==
    (Len(trim) = 3) => trim[3] = trim[2]

(***************************************************************************)
(* Properties of the feed poller (under SpecFeed).                         *)
(***************************************************************************)
\* the timestamp of an entry as the claim reads it: an entry lacking one is
\* the earliest possible
StampOf(entry) ==
    IF entry.published_parsed.has = "time" THEN entry.published_parsed.t ELSE 0
EntryOf(candidate) == CHOOSE i \in DOMAIN feed.entries :
                         feed.entries[i].link = candidate.link

\* C24 (as claimed): the poller never raises; for malformed feed data it
\* returns no candidate; otherwise it returns min(N, number of entries)
\* candidates, each the title and link (and nothing else) of an entry, in
\* descending order of timestamp, entries lacking a timestamp last, and no
\* entry left out is later than one returned.
C24_LatestEntriesNewestFirst ==
    latest.done
       => /\ ~latest.raised
          /\ feed.bozo => latest.articles = <<>>
          /\ ~feed.bozo =>
                LET got == latest.articles
                    n == Len(feed.entries)
                IN  /\ Len(got) = IF latest.count < n THEN latest.count ELSE n
                    /\ \A k \in DOMAIN got :
                          /\ DOMAIN got[k] = {"title", "link"}
                          /\ \E i \in DOMAIN feed.entries :
                                /\ feed.entries[i].link = got[k].link
                                /\ feed.entries[i].title = got[k].title
                    /\ \A k, l \in DOMAIN got :
                          k < l => /\ EntryOf(got[k]) # EntryOf(got[l])
                                   /\ StampOf(feed.entries[EntryOf(got[k])])
                                         >= StampOf(feed.entries[EntryOf(got[l])])
                    /\ \A k \in DOMAIN got : \A i \in DOMAIN feed.entries :
                          (\A l \in DOMAIN got : EntryOf(got[l]) # i)
                             => StampOf(feed.entries[i])
                                   <= StampOf(feed.entries[EntryOf(got[k])])

(***************************************************************************)
(* Properties of the extraction (under SpecScrape).                        *)
(***************************************************************************)
\* C7 (as claimed): whenever scrape_article_content returns a result, through
\* the primary or through the fallback strategy, the result's content is not
\* empty (it holds more than white space).
C7_SuccessHasContent ==
    (scraped.done /\ scraped.result.ok)
       => \E n \in DOMAIN scraped.result.content_html :
             scraped.result.content_html[n].tag # "ws"

\* the primary strategy's rebuilt content for the page, and its acceptance
PrimaryContent(pg) == rebuild(find_all(pg.nodes), <<>>, {}, NULL).content_html
PrimaryAccepted(pg) ==
    /\ pg.body
    /\ \E n \in DOMAIN PrimaryContent(pg) : PrimaryContent(pg)[n].tag # "ws"
Ran(strategy) == \E n \in DOMAIN scraped.calls : scraped.calls[n] = strategy

\* C29: for a fetched page the primary strategy runs first, and the fallback
\* strategy runs if and only if the primary strategy gave no accepted result;
\* when the primary result is accepted it is what is returned and the fallback
\* is not run.  Without a fetched page neither runs.
C29_FallbackIffPrimaryEmpty ==
    scraped.done
       => /\ ~page.fetched => scraped.calls = <<>>
          /\ page.fetched =>
                /\ scraped.calls # <<>>
                /\ scraped.calls[1] = "scrape_with_beautifulsoup"
                /\ Ran("scrape_with_trafilatura") <=> ~PrimaryAccepted(page)
                /\ PrimaryAccepted(page) =>
                      /\ scraped.result.ok
                      /\ scraped.result.via = "primary"
                      /\ scraped.result.content_html = PrimaryContent(page)
                /\ scraped.result.via = "fallback" => Ran("scrape_with_trafilatura")

\* The primary strategy accepted the nodes of a page for which the fallback
\* had a document to offer: the fallback was not run.
C29_Witness ==
    /\ scraped.done
    /\ page.nodes # <<>>
    /\ ~page.extract.none
    /\ page.extract.html # <<>>
    /\ PrimaryAccepted(page)
    /\ scraped.calls = <<"scrape_with_beautifulsoup">>
    /\ scraped.result.via = "primary"

RECURSIVE IsSubsequence(_, _)
\* a is b with some elements left out
IsSubsequence(a, b) ==
    IF a = <<>> THEN TRUE
    ELSE IF b = <<>> THEN FALSE
    ELSE IF Head(a) = Head(b) THEN IsSubsequence(Tail(a), Tail(b))
    ELSE IsSubsequence(a, Tail(b))

\* C30 (as claimed): the document the primary strategy rebuilds holds no
\* paragraph and no heading whose text is shorter than the minimum length,
\* and its paragraphs, headings and images are in the order of the page.
C30_ShortTextDroppedOrderKept ==
    (scraped.done /\ scraped.result.via = "primary")
       => /\ \A n \in DOMAIN scraped.result.content_html :
                scraped.result.content_html[n].tag \in {"p", "h1", "h2", "h3"}
                   => Len(scraped.result.content_html[n].text) >= 20
          /\ IsSubsequence(scraped.result.content_html, find_all(page.nodes))

(***************************************************************************)
(* Properties of the approval handler (under SpecModeration).              *)
(***************************************************************************)
Handled == lastEvent.ev.eid # 0
HandledId == article_id_of(lastEvent.ev.data)
KnownHosted(id) == id \in DOMAIN articles /\ articles[id].telegraph_url # NULL
PostsOf(eid) == { n \in DOMAIN posts : posts[n].eid = eid }
Mentions(text, url) == \E n \in DOMAIN text : text[n].v = url
SourceLine(line) ==
    /\ \E n \in DOMAIN line : line[n].k \in {"a1", "a2"}
    /\ \E n \in DOMAIN line : line[n] = SOURCE_END

\* C8 (as claimed): a handled approval event whose payload names a row with
\* a hosted URL has exactly one post on the public channel, and that post's
\* text contains the row's hosted URL.
C8_ExactlyOnePostWithHostedUrl ==
    (Handled /\ KnownHosted(HandledId))
       => /\ Cardinality(PostsOf(lastEvent.ev.eid)) = 1
          /\ \A n \in PostsOf(lastEvent.ev.eid) :
                Mentions(posts[n].text, articles[HandledId].telegraph_url)

\* C8 (amended): such an event has at most one post; it has one exactly when
\* the handler got to its success annotation, that is when the
\* acknowledgement did not abort it and the send succeeded, and otherwise the
\* handler stopped at the acknowledgement or went to the "publish failed"
\* annotation.  The post is made of the draft's text only: it holds no source
\* line, and it contains the hosted URL exactly when a line of the draft other
\* than a source line contains it.
C8_AtMostOnePostOfTheDraftText ==
    (Handled /\ KnownHosted(HandledId))
       => LET mine == PostsOf(lastEvent.ev.eid)
              url == articles[HandledId].telegraph_url
              lines == split_lines(lastEvent.ev.text)
          IN  /\ Cardinality(mine) <= 1
              /\ (mine # {}) <=> (lastEvent.label = "published")
              /\ (mine # {}) <=> (lastEvent.acked # "error" /\ lastEvent.sent)
              /\ (mine = {}) =>
                    \/ lastEvent.acked = "error" /\ lastEvent.label = "none"
                    \/ lastEvent.acked # "error" /\ lastEvent.label = "publish failed"
              /\ \A n \in mine :
                    /\ \A i \in DOMAIN split_lines(posts[n].text) :
                          ~SourceLine(split_lines(posts[n].text)[i])
                    /\ Mentions(posts[n].text, url)
                          <=> \E i \in DOMAIN lines :
                                 ~SourceLine(lines[i]) /\ Mentions(lines[i], url)

\* An approval of a hosted row was handled to the end: one post, which does
\* not contain the hosted URL, and the success annotation on the draft.
C8_Witness ==
    /\ Handled
    /\ KnownHosted(HandledId)
    /\ Cardinality(PostsOf(lastEvent.ev.eid)) = 1
    /\ \A n \in PostsOf(lastEvent.ev.eid) :
          ~Mentions(posts[n].text, articles[HandledId].telegraph_url)
    /\ lastEvent.edited
    /\ drafts[lastEvent.ev.draft].text = annotated(lastEvent.ev.text, "published")

\* C9 (as claimed): a handled approval event whose id has no row, or whose
\* row has no hosted URL, has no post on the public channel and its draft
\* carries the error annotation.
C9_UnknownIdAnnotatedNoPost ==
    (Handled /\ HandledId # -1 /\ ~KnownHosted(HandledId))
       => /\ PostsOf(lastEvent.ev.eid) = {}
          /\ drafts[lastEvent.ev.draft].text
                = annotated(lastEvent.ev.text, "not found")

\* C9 (amended): such an event never has a post, and the only annotation the
\* handler goes for is "not found".  The handler stops before it when the
\* acknowledgement fails with an error other than "too old"; when the edit
\* succeeds the draft carries the annotation and has lost its button; a
\* failed edit is swallowed.
C9_UnknownIdNeverPosted ==
    /\ (handler.pc # "idle" /\ article_id_of(handler.ev.data) # -1
          /\ ~KnownHosted(article_id_of(handler.ev.data)))
          => /\ PostsOf(handler.ev.eid) = {}
             /\ handler.pc = "edit_error"
             /\ handler.label = "not found"
    /\ (Handled /\ HandledId # -1 /\ ~KnownHosted(HandledId))
          => /\ PostsOf(lastEvent.ev.eid) = {}
             /\ ~lastEvent.sent
             /\ IF lastEvent.acked = "error"
                THEN lastEvent.label = "none" /\ ~lastEvent.edited
                ELSE lastEvent.label = "not found"
             /\ lastEvent.edited
                   => /\ drafts[lastEvent.ev.draft].text
                            = annotated(lastEvent.ev.text, "not found")
                      /\ ~drafts[lastEvent.ev.draft].keyboard

\* An approval naming a row without a hosted URL was handled and annotated.
C9_Witness ==
    /\ Handled
    /\ HandledId \in DOMAIN articles
    /\ articles[HandledId].telegraph_url = NULL
    /\ lastEvent.edited
    /\ lastEvent.label = "not found"
    /\ PostsOf(lastEvent.ev.eid) = {}

\* Every draft of the review channel names the same article, a hosted one.
OneHostedArticle ==
    /\ drafts # <<>>
    /\ \E id \in DOMAIN articles :
          /\ KnownHosted(id)
          /\ \A d \in DOMAIN drafts : article_id_of(drafts[d].data) = id

\* C15 (as claimed): k approval events for the same hosted article give k
\* posts: when all drafts name one hosted article and every event has been
\* handled, there are as many posts as events.
C15_KEventsKPosts ==
    (OneHostedArticle /\ handler.pc = "idle" /\ queue = <<>>)
       => Len(posts) = pressed

\* C15 (amended): no guard looks at earlier events or posts.  An event for a
\* hosted article whose acknowledgement does not abort the handler always
\* gets to the send, and a send that succeeds always adds a post of its own,
\* whatever the public channel already holds; a send that fails adds none.
\* Posts are never taken back.
C15_EveryEventHandledAlike ==
    [][/\ (handler.pc = "idle" /\ handler'.pc # "idle"
             /\ KnownHosted(article_id_of(handler'.ev.data)))
          => handler'.pc = "send"
       /\ (handler.pc = "send" /\ handler' # handler)
          => IF handler'.sent
             THEN /\ Len(posts') = Len(posts) + 1
                  /\ posts'[Len(posts')].eid = handler.ev.eid
                  /\ posts'[Len(posts')].text = publish_text_of(handler.ev.text)
                  /\ \A n \in DOMAIN posts : posts[n].eid # handler.ev.eid
             ELSE posts' = posts /\ handler'.pc = "edit_error"
       /\ \A n \in DOMAIN posts :
             /\ n \in DOMAIN posts'
             /\ posts'[n].eid = posts[n].eid
             /\ posts'[n].text = posts[n].text]_vars

\* Two events for the same hosted article, two posts.
C15_Witness ==
    /\ OneHostedArticle
    /\ Len(posts) = 2
    /\ posts[1].eid # posts[2].eid
    /\ posts[1].text = posts[2].text

FailedHooks == {"failed", "timeout", "request error", "bad status"}

\* The event handled last has its post although the webhook failed: the handler
\* went for the success annotation, not for an error annotation.
PostStandsAfterWebhookFailure ==
    (Handled /\ lastEvent.hook \in FailedHooks)
       => /\ Cardinality(PostsOf(lastEvent.ev.eid)) = 1
          /\ lastEvent.label = "published"
          /\ lastEvent.edited
                => drafts[lastEvent.ev.draft].text
                      = annotated(lastEvent.ev.text, "published")

\* C16: after the public post was sent, a failure of the webhook logic (the
\* generation of the post text, a timeout, a transport error, a bad status)
\* changes neither the post nor the draft, raises nothing (the handler goes on
\* to the success annotation) and writes no error annotation.
C16_WebhookFailureIsLoggedOnly ==
    [][/\ (handler.pc = "webhook" /\ handler' # handler)
          => /\ handler'.pc = "edit_ok"
             /\ handler'.label = "none"
             /\ drafts' = drafts
             /\ posts' = posts
       /\ (handler.pc = "send" /\ handler'.sent /\ webhook_url # NULL)
          => /\ handler'.pc \in {"webhook", "edit_ok"}
             /\ handler'.label = "none"
             /\ (handler'.pc = "edit_ok") <=> (handler'.hook = "failed")
             /\ drafts' = drafts
       /\ PostStandsAfterWebhookFailure']_vars

\* The webhook timed out for the event handled last; its post stands and the
\* draft carries the success annotation.
C16_Witness ==
    /\ Handled
    /\ lastEvent.hook = "timeout"
    /\ Cardinality(PostsOf(lastEvent.ev.eid)) = 1
    /\ lastEvent.edited
    /\ drafts[lastEvent.ev.draft].text = annotated(lastEvent.ev.text, "published")

\* C17 (as claimed): the webhook call is detached from the handler: while the
\* call for an event's post is in flight, the handler of that event is not
\* waiting for it.
C17_WebhookDetached ==
    \A n \in DOMAIN posts :
        (handler.hook = "pending" /\ handler.ev.eid = posts[n].eid)
           => handler.pc # "webhook"

\* The event handled last was posted and its success annotation failed: it
\* has its one post.
PostStandsAfterEditFailure ==
    (Handled /\ lastEvent.label = "published" /\ ~lastEvent.edited)
       => /\ lastEvent.sent
          /\ Cardinality(PostsOf(lastEvent.ev.eid)) = 1

\* C18: the step of the success annotation ends the handler whether the edit
\* succeeds or fails; when it fails the draft is left as it was (no error
\* annotation), the posts are left as they were (the post stands, no second
\* one is sent) and nothing is raised.
C18_SuccessEditFailureSwallowed ==
    [][/\ (handler.pc = "edit_ok" /\ handler' # handler)
          => /\ handler' = IdleHandler
             /\ posts' = posts
             /\ lastEvent'.ev = handler.ev
             /\ lastEvent'.label = "published"
             /\ drafts' = IF lastEvent'.edited
                          THEN Edited(handler.ev, "published") ELSE drafts
       /\ PostStandsAfterEditFailure']_vars

\* The success annotation of the event handled last failed: one post, and the
\* draft still has its button.
C18_Witness ==
    /\ Handled
    /\ lastEvent.label = "published"
    /\ ~lastEvent.edited
    /\ Cardinality(PostsOf(lastEvent.ev.eid)) = 1
    /\ drafts[lastEvent.ev.draft].keyboard
    /\ drafts[lastEvent.ev.draft].text = lastEvent.ev.text

ErrorLabels == {"not found", "bad id", "publish failed"}
ErrorAnnotated ==
    /\ lastEvent.edited
    /\ lastEvent.label \in ErrorLabels
    /\ drafts[lastEvent.ev.draft].text = annotated(lastEvent.ev.text, lastEvent.label)

\* C32 (as claimed): a handled approval event does not have both a post and
\* an error annotation; its success annotation is written only when its post
\* was sent; and when its payload is not a valid article id its draft carries
\* an error annotation and it has no post.
C32_PostXorErrorBadIdAnnotated ==
    Handled
       => /\ ~(PostsOf(lastEvent.ev.eid) # {} /\ ErrorAnnotated)
          /\ (lastEvent.edited /\ lastEvent.label = "published")
                => PostsOf(lastEvent.ev.eid) # {}
          /\ HandledId = -1
                => /\ PostsOf(lastEvent.ev.eid) = {}
                   /\ ErrorAnnotated

\* C32 (amended): the handler goes for an error annotation only for an event
\* without a post, and for the success annotation only after the event's one
\* post; an event whose payload is not a valid article id never has a post,
\* and the handler goes for the "bad id" annotation unless the
\* acknowledgement failed with an error other than "too old", in which case
\* it stops without annotating; the annotation is on the draft when the edit
\* succeeds, and a failed edit is swallowed.
C32_PostXorErrorBadIdNeverPosted ==
    /\ handler.pc = "edit_error"
          => /\ PostsOf(handler.ev.eid) = {}
             /\ ~handler.sent
             /\ handler.label \in ErrorLabels
    /\ handler.pc = "edit_ok"
          => /\ handler.sent
             /\ Cardinality(PostsOf(handler.ev.eid)) = 1
    /\ (handler.pc # "idle" /\ article_id_of(handler.ev.data) = -1)
          => /\ handler.pc = "edit_error"
             /\ handler.label = "bad id"
    /\ Handled
          => /\ lastEvent.label \in ErrorLabels
                   => PostsOf(lastEvent.ev.eid) = {} /\ ~lastEvent.sent
             /\ lastEvent.label = "published"
                   => /\ lastEvent.sent
                      /\ Cardinality(PostsOf(lastEvent.ev.eid)) = 1
             /\ lastEvent.label = "none"
                   => PostsOf(lastEvent.ev.eid) = {} /\ ~lastEvent.edited
             /\ HandledId = -1
                   => /\ PostsOf(lastEvent.ev.eid) = {}
                      /\ IF lastEvent.acked = "error"
                         THEN lastEvent.label = "none"
                         ELSE lastEvent.label = "bad id"
                      /\ lastEvent.edited => ErrorAnnotated

\* An event with a payload that is no article id was handled and annotated,
\* without a post, while another event has its post on the public channel.
C32_Witness ==
    /\ Handled
    /\ HandledId = -1
    /\ ErrorAnnotated
    /\ lastEvent.label = "bad id"
    /\ PostsOf(lastEvent.ev.eid) = {}
    /\ \E n \in DOMAIN posts : posts[n].eid # lastEvent.ev.eid

(***************************************************************************)
(* Properties of the handler beside a running tick (under SpecLoop).       *)
(***************************************************************************)
HandlerStep == handler' # handler \/ lastEvent' # lastEvent \/ posts' # posts
TickStep == job' # job \/ lastRun' # lastRun

\* C33: a step of the approval handler, wherever it falls between the steps
\* of a running tick, leaves every article row and every variable of the
\* tick as it was; a step of the tick leaves the handler, its queue and both
\* channels as they were, so the tick goes on from the store it would have
\* had without the event.
C33_HandlerNeverWritesStore ==
    [][/\ HandlerStep => /\ articles' = articles
                         /\ UNCHANGED <<today, tickVars>>
       /\ TickStep => UNCHANGED modVars]_vars

\* The handler has looked the row up and sent the post of an event while the
\* tick is at its base insert: the row is as the lookup found it.
C33_Witness ==
    /\ handler.pc = "edit_ok"
    /\ handler.sent
    /\ job["scheduler"].pc = "insert"
    /\ KnownHosted(article_id_of(handler.ev.data))
    /\ articles = <<HostedRow("urlA", 2)>>

IsSentinelRow(id) ==
    id \in DOMAIN articles /\ articles[id].original_content = SENTINEL
SentinelRowsBare ==
    \A i \in DOMAIN articles :
        IsSentinelRow(i) => /\ articles[i].translated_content = NULL
                            /\ articles[i].telegraph_url = NULL

\* C34 (as claimed): a row whose content is the sentinel has neither its
\* translated content nor its hosted URL set, and a handled approval event
\* that carries such a row's id has no post and its draft carries an error
\* annotation.
C34_SentinelRowBareAndAnnotated ==
    /\ SentinelRowsBare
    /\ (Handled /\ IsSentinelRow(HandledId))
          => /\ PostsOf(lastEvent.ev.eid) = {}
             /\ ErrorAnnotated

\* C34 (amended): sentinel rows are bare in every state; an approval event
\* that carries such a row's id never has a post, and the handler goes for
\* the "not found" annotation unless the acknowledgement failed with an error
\* other than "too old", in which case it stops without annotating; the
\* annotation is on the draft when the edit succeeds, and a failed edit is
\* swallowed.
C34_SentinelRowBareNeverPosted ==
    /\ SentinelRowsBare
    /\ (handler.pc # "idle" /\ IsSentinelRow(article_id_of(handler.ev.data)))
          => /\ handler.pc = "edit_error"
             /\ handler.label = "not found"
             /\ PostsOf(handler.ev.eid) = {}
    /\ (Handled /\ IsSentinelRow(HandledId))
          => /\ PostsOf(lastEvent.ev.eid) = {}
             /\ ~lastEvent.sent
             /\ IF lastEvent.acked = "error"
                THEN lastEvent.label = "none" /\ ~lastEvent.edited
                ELSE lastEvent.label = "not found"
             /\ lastEvent.edited => ErrorAnnotated

\* An approval naming a sentinel row was handled while the tick was in its
\* body: the draft carries the "not found" annotation and nothing was posted.
C34_Witness ==
    /\ Handled
    /\ IsSentinelRow(HandledId)
    /\ ErrorAnnotated
    /\ lastEvent.label = "not found"
    /\ posts = <<>>
    /\ InBody("scheduler")

(***************************************************************************)
(* Properties of the publish text (under SpecText).                        *)
(***************************************************************************)
DraftLines == split_lines(draft_html)
SourceLineIds == { i \in DOMAIN DraftLines : SourceLine(DraftLines[i]) }
LastSourceLine == CHOOSE i \in SourceLineIds : \A j \in SourceLineIds : j <= i

\* C10 (as claimed): the publish text is the draft's text with only its last
\* source line removed; every other line is forwarded unchanged, in order.
C10_OnlyTrailingSourceLineRemoved ==
    publish_text.done
       => publish_text.text =
             join_lines(IF SourceLineIds = {} THEN DraftLines
                        ELSE SubSeq(DraftLines, 1, LastSourceLine - 1)
                             \o SubSeq(DraftLines, LastSourceLine + 1,
                                       Len(DraftLines)))

====
